---- MODULE Spec2Model ----
(***************************************************************************)
(* MagicWound card game (PymagicWound), src/main_gui.py: the local battle  *)
(* of the Pygame front end (BattleScene with PlayerBattleState and         *)
(* CharacterState), the deck-code codec (encode_deck_code,                 *)
(* decode_deck_code, Deck.import_from_code) and the LAN lobby              *)
(* (NetworkLobbyScene).                                                    *)
(*                                                                         *)
(* Text is a sequence of Unicode code points and a byte string a sequence  *)
(* of integers 0..255; S(<<"a", "b">>) writes an ASCII text literal.  List *)
(* indices kept in variables are 0-based as in the source and shifted by   *)
(* one where a sequence is indexed.                                        *)
(*                                                                         *)
(* Eight specifications share the module.  Spec is the local battle as the *)
(* clicks of BattleScene.handle_event drive it.  SpecCodec builds, exports *)
(* and imports deck codes.  SpecNet is the LAN lobby with its two          *)
(* instances, their threads and the bytes between them.  SpecRules calls   *)
(* the battle rules (start_turn, pay_cost, take_damage, get_valid_targets, *)
(* play_card, execute_play_card) once each on two sides in the middle of a *)
(* battle.  SpecDeck edits a Deck through add_card, remove_card,           *)
(* add_character, remove_character and import_from_code.  SpecSession is   *)
(* the life of a LAN connection: connecting, the handshake, the start of   *)
(* the battle, disconnect and the loss of the connection, with the threads *)
(* scheduled fairly.  SpecMessages hands two connected instances arbitrary *)
(* lines.  SpecBases follows a local battle play by play until a base is   *)
(* down.                                                                   *)
(***************************************************************************)
EXTENDS Integers, Sequences, FiniteSets, TLC

VARIABLES
    \* BattleScene
    game_decks,             \* game.decks, the deck list the scene reads
    player1, player2,       \* PlayerBattleState of each side (None before init)
    current_turn,           \* 0 = player1, 1 = player2
    turn_number,
    selected_hand_index, selected_actor_index, selected_target,
    battle_started,
    announced_winner,       \* the side the win check logged as winner (0 = none)
    end_turns,              \* history: number of end_turn calls that ran
    plays,                  \* history: number of cards play_card played
    ignored_events,         \* history: handle_event returned early, the battle not running
    \* deck codes
    built_deck,             \* the Deck being filled through add_character / add_card
    deck_code,              \* DeckImportScene.deck_code, the code text to import
    exported_deck,          \* history: the Deck whose code was carried over (None: typed)
    decode_result,          \* history: the last decode_deck_code call and what it returned
    import_result,          \* history: the last import_from_code call (None: no import yet)
    \* LAN lobby: two instances, 1 the one that creates the room, 2 the one that joins
    lobby,                  \* the NetworkLobbyScene of each instance
    wire,                   \* the bytes sent to each instance that its recv has not returned yet
    recv_buffer,            \* buffer of each instance's _recv_thread
    sent,                   \* history: the lines each instance passed to _send_message
    applied,                \* history: the lines each instance took off its message_queue
    short_reads,            \* history: number of recv calls that returned less than was waiting
    clicks,                 \* history: number of clicks on the battlefield
    \* battle rules called on their own
    rule_call               \* history: the last call of a battle rule or of a Deck method

battle_vars ==
    <<game_decks, player1, player2, current_turn, turn_number, selected_hand_index,
      selected_actor_index, selected_target, battle_started, announced_winner,
      end_turns, plays, ignored_events>>

codec_vars == <<built_deck, deck_code, exported_deck, decode_result, import_result>>

net_vars == <<lobby, wire, recv_buffer, sent, applied, short_reads, clicks>>

rule_vars == <<rule_call>>

vars == <<battle_vars, codec_vars, net_vars, rule_vars>>

\* ------------------------------------------------------------------ enums

\* class Element(IntEnum)
PHYSICAL == 1
LIGHT == 2
DARK == 3
WATER == 4
FIRE == 5
EARTH == 6
WIND == 7

\* class Rarity(IntEnum)
COMMON == 1
UNCOMMON == 2
RARE == 3
MYTHIC == 4
FUNNY == 5

\* class DeckType(IntEnum)
STANDARD == 1
CASUAL == 2

\* Python's None, for an Optional object
None == [is_none |-> TRUE]

\* selected_target = None
NoTarget == "None"

\* no NetworkLobbyScene is open
NoNetwork ==
    /\ lobby = <<>>
    /\ wire = <<>>
    /\ recv_buffer = <<>>
    /\ sent = <<>>
    /\ applied = <<>>
    /\ short_reads = 0
    /\ clicks = 0

Min(a, b) == IF a <= b THEN a ELSE b

Max(a, b) == IF a >= b THEN a ELSE b

\* element in elements (a Python list)
InList(x, list) == \E i \in 1..Len(list) : list[i] = x

\* list.pop(i) with a 0-based i: the list without that entry
PopAt(list, i) == SubSeq(list, 1, i) \o SubSeq(list, i + 2, Len(list))

\* ------------------------------------------------------------------- text

\* the printable ASCII characters, code points 32 to 126 in order (code point
\* 96 is spelled out: the lexer takes no backtick in a string)
AsciiChars ==
    <<" ", "!", "\"", "#", "$", "%", "&", "'", "(", ")", "*", "+", ",", "-", ".", "/",
      "0", "1", "2", "3", "4", "5", "6", "7", "8", "9", ":", ";", "<", "=", ">", "?",
      "@", "A", "B", "C", "D", "E", "F", "G", "H", "I", "J", "K", "L", "M", "N", "O",
      "P", "Q", "R", "S", "T", "U", "V", "W", "X", "Y", "Z", "[", "\\", "]", "^", "_",
      "backtick", "a", "b", "c", "d", "e", "f", "g", "h", "i", "j", "k", "l", "m", "n", "o",
      "p", "q", "r", "s", "t", "u", "v", "w", "x", "y", "z", "{", "|", "}", "~">>

\* ord(c) of a printable ASCII character or of "\n"
Ord(c) ==
    IF c = "\n" THEN 10
    ELSE 31 + CHOOSE i \in 1..Len(AsciiChars) : AsciiChars[i] = c

\* a str literal: the code points of its characters, as a tuple
S(lit) == <<>> \o [i \in 1..Len(lit) |-> Ord(lit[i])]

\* sep.join(items)
RECURSIVE Join(_, _)
Join(items, sep) ==
    IF items = <<>> THEN <<>>
    ELSE IF Len(items) = 1 THEN items[1]
    ELSE Join(SubSeq(items, 1, Len(items) \div 2), sep) \o sep
         \o Join(SubSeq(items, Len(items) \div 2 + 1, Len(items)), sep)

\* the 0-based index of the first ch in text at or after index from, or -1
Find(text, ch, from) ==
    LET hits == {i \in from..(Len(text) - 1) : text[i + 1] = ch}
    IN  IF hits = {} THEN -1 ELSE CHOOSE i \in hits : \A j \in hits : i <= j

\* the members of a set of integers in increasing order
Sorted(set) ==
    [k \in 1..Cardinality(set) |->
        CHOOSE i \in set : Cardinality({j \in set : j < i}) = k - 1]

\* text.split(ch): always at least one part
Split(text, ch) ==
    LET cuts == <<0>> \o Sorted({i \in 1..Len(text) : text[i] = ch}) \o <<Len(text) + 1>>
    IN  [k \in 1..(Len(cuts) - 1) |-> SubSeq(text, cuts[k] + 1, cuts[k + 1] - 1)]

\* text.split(ch, 1)
Split1(text, ch) ==
    LET k == Find(text, ch, 0)
    IN  IF k < 0 THEN <<text>>
        ELSE <<SubSeq(text, 1, k), SubSeq(text, k + 2, Len(text))>>

\* text.startswith(prefix)
StartsWith(text, prefix) ==
    Len(text) >= Len(prefix) /\ SubSeq(text, 1, Len(prefix)) = prefix

\* str(n) / f"{n}" of an int
RECURSIVE NatToText(_)
NatToText(n) ==
    IF n < 10 THEN <<48 + n>>
    ELSE NatToText(n \div 10) \o <<48 + (n % 10)>>

IntToText(n) == IF n < 0 THEN <<45>> \o NatToText(-n) ELSE NatToText(n)

IsDigit(c) == c >= 48 /\ c <= 57

\* the whitespace int() and str.strip() remove, up to U+00FF
IsSpace(c) == c \in {9, 10, 11, 12, 13, 28, 29, 30, 31, 32, 133, 160}

\* text.strip()
LStrip(text) ==
    LET kept == {i \in 1..Len(text) : ~IsSpace(text[i])}
    IN  IF kept = {} THEN <<>>
        ELSE SubSeq(text, CHOOSE i \in kept : \A j \in kept : i <= j, Len(text))

RStrip(text) ==
    LET kept == {i \in 1..Len(text) : ~IsSpace(text[i])}
    IN  IF kept = {} THEN <<>>
        ELSE SubSeq(text, 1, CHOOSE i \in kept : \A j \in kept : i >= j)

Strip(text) == RStrip(LStrip(text))

\* the value of the first n characters of a run of decimal digits and single
\* underscores between them
RECURSIVE DigitsValue(_, _)
DigitsValue(text, n) ==
    IF n = 0 THEN 0
    ELSE IF text[n] = 95 THEN DigitsValue(text, n - 1)
    ELSE DigitsValue(text, n - 1) * 10 + (text[n] - 48)

\* int(text): ok is FALSE where Python raises ValueError
ParseInt(text) ==
    LET t == Strip(text)
        signed == t # <<>> /\ t[1] \in {43, 45}
        body == IF signed THEN Tail(t) ELSE t
        wellformed ==
            /\ body # <<>>
            /\ IsDigit(body[1]) /\ IsDigit(body[Len(body)])
            /\ \A i \in 1..Len(body) : IsDigit(body[i]) \/ body[i] = 95
            /\ \A i \in 1..(Len(body) - 1) : ~(body[i] = 95 /\ body[i + 1] = 95)
    IN  IF ~wellformed THEN [ok |-> FALSE, value |-> 0]
        ELSE [ok |-> TRUE,
              value |-> IF signed /\ t[1] = 45 THEN -DigitsValue(body, Len(body))
                        ELSE DigitsValue(body, Len(body))]

\* ------------------------------------------------------------------ bytes

\* a ^ b on naturals, bit by bit
RECURSIVE XorBits(_, _)
XorBits(a, b) ==
    IF a = 0 THEN b
    ELSE IF b = 0 THEN a
    ELSE (((a % 2) + (b % 2)) % 2) + 2 * XorBits(a \div 2, b \div 2)

\* a ^ b of two 4-bit values, entry [a + 1][b + 1], as a tuple of tuples
XorNibble == <<>> \o [a \in 1..16 |-> <<>> \o [b \in 1..16 |-> XorBits(a - 1, b - 1)]]

\* a ^ b of two values below 2^16, four bits at a time
Xor(a, b) ==
    XorNibble[(a % 16) + 1][(b % 16) + 1]
    + 16 * XorNibble[((a \div 16) % 16) + 1][((b \div 16) % 16) + 1]
    + 256 * XorNibble[((a \div 256) % 16) + 1][((b \div 256) % 16) + 1]
    + 4096 * XorNibble[(a \div 4096) + 1][(b \div 4096) + 1]

\* str.encode('utf-8') of one code point
Utf8Char(cp) ==
    IF cp < 128 THEN <<cp>>
    ELSE IF cp < 2048 THEN <<192 + cp \div 64, 128 + (cp % 64)>>
    ELSE IF cp < 65536
         THEN <<224 + cp \div 4096, 128 + ((cp \div 64) % 64), 128 + (cp % 64)>>
    ELSE <<240 + cp \div 262144, 128 + ((cp \div 4096) % 64),
           128 + ((cp \div 64) % 64), 128 + (cp % 64)>>

\* the concatenation of a list of lists
RECURSIVE Concat(_)
Concat(lists) ==
    IF lists = <<>> THEN <<>>
    ELSE IF Len(lists) = 1 THEN lists[1]
    ELSE Concat(SubSeq(lists, 1, Len(lists) \div 2))
         \o Concat(SubSeq(lists, Len(lists) \div 2 + 1, Len(lists)))

\* text.encode('utf-8')
Utf8Encode(text) == Concat([i \in 1..Len(text) |-> Utf8Char(text[i])])

\* the strict UTF-8 decoder one byte on: need counts the continuation bytes
\* still due, low..high is the range the next of them must lie in (narrower
\* after the lead bytes E0, ED, F0 and F4: no overlong form, no surrogate,
\* nothing above U+10FFFF)
Utf8Step(st, b) ==
    IF ~st.ok THEN st
    ELSE IF st.need = 0
    THEN (IF b < 128 THEN [st EXCEPT !.text = Append(@, b)]
          ELSE IF b >= 194 /\ b <= 223
          THEN [st EXCEPT !.need = 1, !.cp = b - 192, !.low = 128, !.high = 191]
          ELSE IF b >= 224 /\ b <= 239
          THEN [st EXCEPT !.need = 2, !.cp = b - 224,
                          !.low = IF b = 224 THEN 160 ELSE 128,
                          !.high = IF b = 237 THEN 159 ELSE 191]
          ELSE IF b >= 240 /\ b <= 244
          THEN [st EXCEPT !.need = 3, !.cp = b - 240,
                          !.low = IF b = 240 THEN 144 ELSE 128,
                          !.high = IF b = 244 THEN 143 ELSE 191]
          ELSE [st EXCEPT !.ok = FALSE])
    ELSE IF b >= st.low /\ b <= st.high
    THEN [st EXCEPT !.need = @ - 1, !.cp = st.cp * 64 + (b - 128),
                    !.low = 128, !.high = 191,
                    !.text = IF st.need = 1 THEN Append(@, st.cp * 64 + (b - 128)) ELSE @]
    ELSE [st EXCEPT !.ok = FALSE]

\* the decoder state st after bytes[lo..hi], taken by halves
RECURSIVE Utf8Fold(_, _, _, _)
Utf8Fold(st, bytes, lo, hi) ==
    IF lo > hi THEN st
    ELSE IF lo = hi THEN Utf8Step(st, bytes[lo])
    ELSE LET left == Utf8Fold(st, bytes, lo, (lo + hi) \div 2)
         IN  IF ~left.ok THEN left ELSE Utf8Fold(left, bytes, (lo + hi) \div 2 + 1, hi)

\* bytes.decode('utf-8'), strict: ok is FALSE where Python raises
\* UnicodeDecodeError
Utf8Decode(bytes) ==
    LET st == Utf8Fold([ok |-> TRUE, need |-> 0, cp |-> 0, low |-> 128, high |-> 191,
                        text |-> <<>>], bytes, 1, Len(bytes))
    IN  IF st.ok /\ st.need = 0 THEN [ok |-> TRUE, text |-> st.text]
        ELSE [ok |-> FALSE, text |-> <<>>]

\* one bit step of the reflected CRC-32 (polynomial 0xEDB88320) on a register
\* kept as its high and low 16 bits
CrcShift(crc) ==
    LET hi == crc.hi \div 2
        lo == crc.lo \div 2 + (crc.hi % 2) * 32768
    IN  IF crc.lo % 2 = 1
        THEN [hi |-> Xor(hi, 60856), lo |-> Xor(lo, 33568)]
        ELSE [hi |-> hi, lo |-> lo]

RECURSIVE CrcShifts(_, _)
CrcShifts(crc, n) == IF n = 0 THEN crc ELSE CrcShift(CrcShifts(crc, n - 1))

\* zlib's table, as a tuple: entry n + 1 is the register n after eight bit steps
CrcTable == <<>> \o [n \in 1..256 |-> CrcShifts([hi |-> 0, lo |-> n - 1], 8)]

\* the register after one more byte
CrcByte(crc, b) ==
    LET entry == CrcTable[Xor(crc.lo % 256, b) + 1]
    IN  [hi |-> Xor(crc.hi \div 256, entry.hi),
         lo |-> Xor(crc.lo \div 256 + (crc.hi % 256) * 256, entry.lo)]

\* TRUE once the value v is worked out: a fold that asks hands on the value of
\* its left half and not the pending computation of it
Evaluated(v) == v = v

\* the register crc after bytes[lo..hi], taken by halves
RECURSIVE CrcBytes(_, _, _, _)
CrcBytes(crc, bytes, lo, hi) ==
    IF lo > hi THEN crc
    ELSE IF lo = hi THEN CrcByte(crc, bytes[lo])
    ELSE LET left == CrcBytes(crc, bytes, lo, (lo + hi) \div 2)
         IN  IF Evaluated(left) THEN CrcBytes(left, bytes, (lo + hi) \div 2 + 1, hi) ELSE left

\* zlib.crc32(bytes) & 0xffffffff, as its high and low 16 bits
crc32(bytes) ==
    LET r == CrcBytes([hi |-> 65535, lo |-> 65535], bytes, 1, Len(bytes))
    IN  [hi |-> 65535 - r.hi, lo |-> 65535 - r.lo]

HexDigits == S(<<"0", "1", "2", "3", "4", "5", "6", "7", "8", "9",
                 "a", "b", "c", "d", "e", "f">>)

\* f"{n:04x}" of a 16-bit n
Hex4(n) ==
    <<HexDigits[n \div 4096 + 1], HexDigits[((n \div 256) % 16) + 1],
      HexDigits[((n \div 16) % 16) + 1], HexDigits[(n % 16) + 1]>>

\* generate_checksum: the first 4 of the 8 hex digits of the CRC-32
generate_checksum(data) == Hex4(crc32(Utf8Encode(data)).hi)

B64Alphabet ==
    S(<<"A", "B", "C", "D", "E", "F", "G", "H", "I", "J", "K", "L", "M", "N", "O", "P",
        "Q", "R", "S", "T", "U", "V", "W", "X", "Y", "Z", "a", "b", "c", "d", "e", "f",
        "g", "h", "i", "j", "k", "l", "m", "n", "o", "p", "q", "r", "s", "t", "u", "v",
        "w", "x", "y", "z", "0", "1", "2", "3", "4", "5", "6", "7", "8", "9", "+", "/">>)

\* "="
B64Pad == Ord("=")

\* the four characters base64 makes of a group of one to three bytes
B64Group(bytes) ==
    IF Len(bytes) = 1
    THEN <<B64Alphabet[bytes[1] \div 4 + 1], B64Alphabet[(bytes[1] % 4) * 16 + 1],
           B64Pad, B64Pad>>
    ELSE IF Len(bytes) = 2
    THEN <<B64Alphabet[bytes[1] \div 4 + 1],
           B64Alphabet[(bytes[1] % 4) * 16 + bytes[2] \div 16 + 1],
           B64Alphabet[(bytes[2] % 16) * 4 + 1], B64Pad>>
    ELSE <<B64Alphabet[bytes[1] \div 4 + 1],
           B64Alphabet[(bytes[1] % 4) * 16 + bytes[2] \div 16 + 1],
           B64Alphabet[(bytes[2] % 16) * 4 + bytes[3] \div 64 + 1],
           B64Alphabet[(bytes[3] % 64) + 1]>>

\* base64.b64encode(bytes).decode('utf-8')
b64encode(bytes) ==
    Concat([k \in 1..((Len(bytes) + 2) \div 3) |->
              B64Group(SubSeq(bytes, 3 * k - 2, Min(3 * k, Len(bytes))))])

\* the 6-bit value of a base64 character, 64 for a character outside the alphabet
B64Value(c) ==
    IF \E i \in 1..64 : B64Alphabet[i] = c
    THEN (CHOOSE i \in 1..64 : B64Alphabet[i] = c) - 1
    ELSE 64

\* binascii.a2b_base64 without strict mode, one character on: characters
\* outside the alphabet are skipped and a pad that completes a quad ends the
\* input
A2bStep(st, c) ==
    IF c = B64Pad
    THEN (IF st.quad_pos >= 2 /\ st.quad_pos + st.pads + 1 >= 4
          THEN [st EXCEPT !.done = TRUE]
          ELSE [st EXCEPT !.pads = IF st.quad_pos >= 2 THEN @ + 1 ELSE @])
    ELSE LET v == B64Value(c)
         IN  IF v >= 64 THEN st
             ELSE IF st.quad_pos = 0
             THEN [st EXCEPT !.quad_pos = 1, !.leftchar = v, !.pads = 0]
             ELSE IF st.quad_pos = 1
             THEN [st EXCEPT !.quad_pos = 2, !.leftchar = v % 16, !.pads = 0,
                             !.out = Append(@, st.leftchar * 4 + v \div 16)]
             ELSE IF st.quad_pos = 2
             THEN [st EXCEPT !.quad_pos = 3, !.leftchar = v % 4, !.pads = 0,
                             !.out = Append(@, st.leftchar * 16 + v \div 4)]
             ELSE [st EXCEPT !.quad_pos = 0, !.leftchar = 0, !.pads = 0,
                             !.out = Append(@, st.leftchar * 64 + v)]

\* the decoder state st after text[lo..hi], taken by halves
RECURSIVE A2bFold(_, _, _, _)
A2bFold(st, text, lo, hi) ==
    IF lo > hi THEN st
    ELSE IF lo = hi THEN A2bStep(st, text[lo])
    ELSE LET left == A2bFold(st, text, lo, (lo + hi) \div 2)
         IN  IF left.done THEN left ELSE A2bFold(left, text, (lo + hi) \div 2 + 1, hi)

\* binascii.a2b_base64: a quad left open at the end is an error
A2bBase64(text) ==
    LET st == A2bFold([quad_pos |-> 0, leftchar |-> 0, pads |-> 0, out |-> <<>>,
                       done |-> FALSE], text, 1, Len(text))
    IN  [ok |-> st.done \/ st.quad_pos = 0, bytes |-> st.out]

\* base64.b64decode(code) of a str: a non-ASCII character raises ValueError
b64decode(code) ==
    IF \E i \in 1..Len(code) : code[i] > 127 THEN [ok |-> FALSE, bytes |-> <<>>]
    ELSE A2bBase64(code)

\* ------------------------------------------------------------- deck codec

\* the data of a failed decode (Python's None where a str is expected)
NoneData == <<-1>>

\* encode_deck_code
encode_deck_code(data) ==
    b64encode(Utf8Encode(data \o S(<<"|">>) \o generate_checksum(data)))

\* as decode_deck_code, but content with more than two parts is let through
decode_deck_code_two_or_more(code) ==
    LET raw == b64decode(code)
        decoded == IF raw.ok THEN Utf8Decode(raw.bytes) ELSE [ok |-> FALSE, text |-> <<>>]
        parts == Split(decoded.text, Ord("|"))
    IN  IF ~raw.ok \/ ~decoded.ok THEN [data |-> NoneData, valid |-> FALSE]
        ELSE IF Len(parts) < 2 THEN [data |-> NoneData, valid |-> FALSE]
        ELSE IF generate_checksum(parts[1]) # parts[2]
        THEN [data |-> NoneData, valid |-> FALSE]
        ELSE [data |-> parts[1], valid |-> TRUE]

\* decode_deck_code: (data, valid); every exception is caught
decode_deck_code(code) ==
    LET raw == b64decode(code)
        decoded == IF raw.ok THEN Utf8Decode(raw.bytes) ELSE [ok |-> FALSE, text |-> <<>>]
        parts == Split(decoded.text, Ord("|"))
    IN  IF ~raw.ok \/ ~decoded.ok THEN [data |-> NoneData, valid |-> FALSE]
        ELSE IF Len(parts) # 2 THEN [data |-> NoneData, valid |-> FALSE]
        ELSE IF generate_checksum(parts[1]) # parts[2]
        THEN [data |-> NoneData, valid |-> FALSE]
        ELSE [data |-> parts[1], valid |-> TRUE]

\* ---------------------------------------------------------------- catalog

all_characters ==
    <<[id |-> S(<<"l", "i", "g", "h", "t", "_", "m", "a", "g", "e", "1">>),
       elements |-> <<LIGHT>>, health |-> 20, energy |-> 20, is_active_ability |-> TRUE],
      [id |-> S(<<"l", "i", "g", "h", "t", "_", "m", "a", "g", "e", "2">>),
       elements |-> <<LIGHT>>, health |-> 25, energy |-> 15, is_active_ability |-> TRUE],
      [id |-> S(<<"d", "a", "r", "k", "_", "m", "a", "g", "e", "1">>),
       elements |-> <<DARK>>, health |-> 22, energy |-> 18, is_active_ability |-> TRUE],
      [id |-> S(<<"d", "a", "r", "k", "_", "m", "a", "g", "e", "2">>),
       elements |-> <<DARK>>, health |-> 28, energy |-> 12, is_active_ability |-> TRUE],
      [id |-> S(<<"e", "a", "r", "t", "h", "_", "m", "a", "g", "e", "1">>),
       elements |-> <<EARTH>>, health |-> 30, energy |-> 15, is_active_ability |-> TRUE],
      [id |-> S(<<"e", "a", "r", "t", "h", "_", "m", "a", "g", "e", "2">>),
       elements |-> <<EARTH>>, health |-> 24, energy |-> 20, is_active_ability |-> TRUE],
      [id |-> S(<<"f", "i", "r", "e", "_", "m", "a", "g", "e", "1">>),
       elements |-> <<FIRE>>, health |-> 18, energy |-> 22, is_active_ability |-> TRUE],
      [id |-> S(<<"f", "i", "r", "e", "_", "m", "a", "g", "e", "2">>),
       elements |-> <<FIRE>>, health |-> 22, energy |-> 18, is_active_ability |-> TRUE],
      [id |-> S(<<"w", "a", "t", "e", "r", "_", "m", "a", "g", "e", "1">>),
       elements |-> <<WATER>>, health |-> 20, energy |-> 20, is_active_ability |-> TRUE],
      [id |-> S(<<"w", "a", "t", "e", "r", "_", "m", "a", "g", "e", "2">>),
       elements |-> <<WATER>>, health |-> 22, energy |-> 18, is_active_ability |-> TRUE],
      [id |-> S(<<"w", "i", "n", "d", "_", "m", "a", "g", "e", "1">>),
       elements |-> <<WIND>>, health |-> 19, energy |-> 21, is_active_ability |-> TRUE],
      [id |-> S(<<"w", "i", "n", "d", "_", "m", "a", "g", "e", "2">>),
       elements |-> <<WIND>>, health |-> 21, energy |-> 19, is_active_ability |-> TRUE],
      [id |-> S(<<"w", "a", "r", "r", "i", "o", "r">>),
       elements |-> <<PHYSICAL>>, health |-> 35, energy |-> 0, is_active_ability |-> TRUE],
      [id |-> S(<<"a", "r", "c", "h", "e", "r">>),
       elements |-> <<PHYSICAL>>, health |-> 25, energy |-> 0, is_active_ability |-> TRUE],
      [id |-> S(<<"r", "o", "g", "u", "e">>),
       elements |-> <<PHYSICAL>>, health |-> 22, energy |-> 0, is_active_ability |-> TRUE],
      [id |-> S(<<"k", "n", "i", "g", "h", "t">>),
       elements |-> <<PHYSICAL>>, health |-> 40, energy |-> 0, is_active_ability |-> TRUE]>>

all_cards ==
    <<[id |-> S(<<"m", "a", "d", "p", "o", "s", "i", "o", "n">>),
       elements |-> <<WATER>>, cost |-> 15, rarity |-> MYTHIC],
      [id |-> S(<<"o", "r", "g", "a", "n", "i", "c", "h", "e", "m", "i", "s", "t", "r", "y">>),
       elements |-> <<WATER>>, cost |-> 9, rarity |-> MYTHIC],
      [id |-> S(<<"s", "l", "o", "w", "d", "o", "w", "n">>),
       elements |-> <<WATER>>, cost |-> 5, rarity |-> RARE],
      [id |-> S(<<"T", "i", "m", "e", "e", "l", "d", "e", "r">>),
       elements |-> <<DARK>>, cost |-> 5, rarity |-> RARE],
      [id |-> S(<<"L", "G", "B", "T", "Q">>),
       elements |-> <<WATER>>, cost |-> 3, rarity |-> RARE],
      [id |-> S(<<"L", "a", "z", "a", "r", "u", "s", ",", "A", "r", "i", "s", "e", "!">>),
       elements |-> <<DARK>>, cost |-> 2, rarity |-> RARE],
      [id |-> S(<<"D", "o", "n", "t", "F", "o", "r", "g", "o", "t", "M", "e">>),
       elements |-> <<WATER>>, cost |-> 5, rarity |-> RARE],
      [id |-> S(<<"T", "h", "e", "C", "a", "r", "d", "L", "e", "t", "M", "e", "W", "i", "n">>),
       elements |-> <<WATER>>, cost |-> 6, rarity |-> RARE],
      [id |-> S(<<"T", "h", "e", "C", "a", "r", "d", "L", "e", "t", "Y", "o", "u", "L", "o", "s", "e">>),
       elements |-> <<WATER>>, cost |-> 2, rarity |-> RARE],
      [id |-> S(<<"w", "h", "A", "t">>),
       elements |-> <<WATER>>, cost |-> 2, rarity |-> RARE],
      [id |-> S(<<"b", "a", "l", "a", "n", "c", "e">>),
       elements |-> <<LIGHT, DARK>>, cost |-> 4, rarity |-> RARE],
      [id |-> S(<<"T", "e", "a", "r", "A", "l", "l">>),
       elements |-> <<WATER, DARK>>, cost |-> 18, rarity |-> RARE],
      [id |-> S(<<"W", "o", "r", "d", "l", "e">>),
       elements |-> <<PHYSICAL>>, cost |-> 4, rarity |-> FUNNY],
      [id |-> S(<<"I", "D", "o", "n", "t", "c", "a", "r">>),
       elements |-> <<PHYSICAL>>, cost |-> 2, rarity |-> FUNNY]>>

\* CharacterDatabase.find_character_by_id / the next(...) lookups of import_from_code
find_character_by_id(char_id) ==
    IF \E i \in 1..Len(all_characters) : all_characters[i].id = char_id
    THEN all_characters[CHOOSE i \in 1..Len(all_characters) :
                            /\ all_characters[i].id = char_id
                            /\ \A j \in 1..(i - 1) : all_characters[j].id # char_id]
    ELSE None

\* CardDatabase.find_card_by_id
find_card_by_id(card_id) ==
    IF \E i \in 1..Len(all_cards) : all_cards[i].id = card_id
    THEN all_cards[CHOOSE i \in 1..Len(all_cards) :
                       /\ all_cards[i].id = card_id
                       /\ \A j \in 1..(i - 1) : all_cards[j].id # card_id]
    ELSE None

\* ------------------------------------------------------------ battle state

\* Character.is_mage: everything but a pure-physical character is a mage
is_mage(character) ==
    ~(Len(character.elements) = 1 /\ character.elements[1] = PHYSICAL)

\* CharacterState.can_attack
can_attack(cs) == ~cs.confused /\ cs.cur_hp > 0

\* CharacterState(char, char.health, initial_energy) as _init_battle builds it
NewCharacterState(char) ==
    [character |-> char,
     cur_hp |-> char.health,
     cur_energy |-> IF is_mage(char) THEN (char.energy + 1) \div 2 ELSE 0,
     taunt |-> FALSE,
     confused |-> FALSE]

\* PlayerBattleState(name): the dataclass defaults
NewPlayerBattleState ==
    [base_hp |-> 50, base_mana |-> 30, chars |-> <<>>, deck |-> <<>>,
     hand |-> <<>>, discard |-> <<>>, extra_mana_per_turn |-> 0]

\* take_damage that takes everything from the HP
take_damage_from_hp(cs, damage, is_magic) ==
    LET hp == cs.cur_hp - damage
    IN  [cs |-> [cs EXCEPT !.cur_hp = IF hp < 0 THEN 0 ELSE hp],
         overflow |-> IF hp < 0 THEN -hp ELSE 0]

\* CharacterState.take_damage: the state after the hit and the overflow returned
take_damage(cs, damage, is_magic) ==
    LET absorbs == is_mage(cs.character) /\ is_magic
        mana_absorbed == IF absorbs THEN Min(cs.cur_energy, damage) ELSE 0
        remaining_damage == damage - mana_absorbed
        energy == cs.cur_energy - mana_absorbed
        hp == IF absorbs
              THEN (IF remaining_damage > 0 THEN cs.cur_hp - remaining_damage ELSE cs.cur_hp)
              ELSE cs.cur_hp - damage
    IN  [cs |-> [cs EXCEPT !.cur_energy = energy,
                           !.cur_hp = IF hp < 0 THEN 0 ELSE hp],
         overflow |-> IF hp < 0 THEN -hp ELSE 0]

\* the ability card start_turn creates for a character
AbilityCard(character) ==
    [id |-> S(<<"a", "b", "i", "l", "i", "t", "y", "_">>) \o character.id,
     elements |-> IF ~is_mage(character) THEN <<PHYSICAL>> ELSE character.elements,
     cost |-> 0,
     rarity |-> MYTHIC]

\* the ability cards of chars[k..], in list order, for the living characters
\* whose ability is active
RECURSIVE AbilityCards(_, _)
AbilityCards(chars, k) ==
    IF k > Len(chars) THEN <<>>
    ELSE (IF chars[k].character.is_active_ability /\ chars[k].cur_hp > 0
          THEN <<AbilityCard(chars[k].character)>> ELSE <<>>)
         \o AbilityCards(chars, k + 1)

\* start_turn that adds to the base mana without the cap of 30
start_turn_uncapped(p) ==
    [p EXCEPT
       !.base_mana = p.base_mana + 5 + p.extra_mana_per_turn,
       !.chars = [i \in 1..Len(p.chars) |->
                    IF is_mage(p.chars[i].character)
                    THEN [p.chars[i] EXCEPT
                            !.cur_energy = Min(p.chars[i].character.energy,
                                               p.chars[i].cur_energy + 5)]
                    ELSE p.chars[i]],
       !.hand = p.hand \o AbilityCards(p.chars, 1)
                       \o (IF p.deck # <<>> THEN <<Head(p.deck)>> ELSE <<>>),
       !.deck = IF p.deck # <<>> THEN Tail(p.deck) ELSE p.deck]

\* start_turn that draws no card
start_turn_without_draw(p) ==
    [p EXCEPT
       !.base_mana = Min(30, p.base_mana + 5 + p.extra_mana_per_turn),
       !.chars = [i \in 1..Len(p.chars) |->
                    IF is_mage(p.chars[i].character)
                    THEN [p.chars[i] EXCEPT
                            !.cur_energy = Min(p.chars[i].character.energy,
                                               p.chars[i].cur_energy + 5)]
                    ELSE p.chars[i]],
       !.hand = p.hand \o AbilityCards(p.chars, 1)]

\* PlayerBattleState.start_turn
start_turn(p) ==
    [p EXCEPT
       !.base_mana = Min(30, p.base_mana + 5 + p.extra_mana_per_turn),
       !.chars = [i \in 1..Len(p.chars) |->
                    IF is_mage(p.chars[i].character)
                    THEN [p.chars[i] EXCEPT
                            !.cur_energy = Min(p.chars[i].character.energy,
                                               p.chars[i].cur_energy + 5)]
                    ELSE p.chars[i]],
       !.hand = p.hand \o AbilityCards(p.chars, 1)
                       \o (IF p.deck # <<>> THEN <<Head(p.deck)>> ELSE <<>>),
       !.deck = IF p.deck # <<>> THEN Tail(p.deck) ELSE p.deck]

\* PlayerBattleState.pay_cost(cost, actor), the actor given by its 0-based
\* index in chars: the player after the payment and the value returned
\* pay_cost that leaves the base mana alone
pay_cost_without_base(p, cost, actor_idx) ==
    LET actor == p.chars[actor_idx + 1]
        from_char == IF is_mage(actor.character) THEN Min(actor.cur_energy, cost) ELSE 0
        remaining == cost - from_char
        hp == IF remaining > 0 THEN actor.cur_hp - remaining ELSE actor.cur_hp
    IN  [p |-> [p EXCEPT !.chars[actor_idx + 1].cur_energy = actor.cur_energy - from_char,
                         !.chars[actor_idx + 1].cur_hp = hp],
         ok |-> ~(remaining > 0 /\ hp <= 0)]

\* PlayerBattleState.pay_cost: the player after the call and the value returned
pay_cost(p, cost, actor_idx) ==
    LET actor == p.chars[actor_idx + 1]
        from_char == IF is_mage(actor.character) THEN Min(actor.cur_energy, cost) ELSE 0
        remaining1 == cost - from_char
        from_base == Min(p.base_mana, remaining1)
        remaining == remaining1 - from_base
        hp == IF remaining > 0 THEN actor.cur_hp - remaining ELSE actor.cur_hp
    IN  [p |-> [p EXCEPT !.chars[actor_idx + 1].cur_energy = actor.cur_energy - from_char,
                         !.chars[actor_idx + 1].cur_hp = hp,
                         !.base_mana = p.base_mana - from_base],
         ok |-> ~(remaining > 0 /\ hp <= 0)]

\* PlayerBattleState.get_active_chars
get_active_chars(p) == SubSeq(p.chars, 1, Min(2, Len(p.chars)))

\* PlayerBattleState.has_reserve
has_reserve(p) == Len(p.chars) >= 3

\* "t0" / "t1", the target strings of the active slots
TargetName(i) == IF i = 0 THEN "t0" ELSE IF i = 1 THEN "t1" ELSE "t2"

\* int(selected_target[1])
TargetIndex(target) == IF target = "t0" THEN 0 ELSE IF target = "t1" THEN 1 ELSE 2

\* get_valid_targets that lets the base be hit past a taunting character
get_valid_targets_base_always(opponent) ==
    LET active == get_active_chars(opponent)
        taunting(i) == active[i + 1].taunt /\ active[i + 1].cur_hp > 0
        alive(i) == active[i + 1].cur_hp > 0
        idx == 0..(Len(active) - 1)
        pick(ok(_)) == (IF 0 \in idx /\ ok(0) THEN <<"t0">> ELSE <<>>)
                       \o (IF 1 \in idx /\ ok(1) THEN <<"t1">> ELSE <<>>)
    IN  (IF \E i \in idx : taunting(i) THEN pick(taunting) ELSE pick(alive)) \o <<"b">>

\* PlayerBattleState.get_valid_targets: the target strings, in list order
get_valid_targets(opponent) ==
    LET active == get_active_chars(opponent)
        taunting(i) == active[i + 1].taunt /\ active[i + 1].cur_hp > 0
        alive(i) == active[i + 1].cur_hp > 0
        idx == 0..(Len(active) - 1)
        pick(ok(_)) == (IF 0 \in idx /\ ok(0) THEN <<"t0">> ELSE <<>>)
                       \o (IF 1 \in idx /\ ok(1) THEN <<"t1">> ELSE <<>>)
    IN  IF \E i \in idx : taunting(i)
        THEN pick(taunting)
        ELSE pick(alive) \o <<"b">>

\* ------------------------------------------------------------------- Deck

\* ','.join of the ids of a list of cards or characters
JoinIds(items) == Join([i \in 1..Len(items) |-> items[i].id], S(<<",">>))

\* Deck._update_deck_code
update_deck_code(d) ==
    LET data == d.name \o S(<<";">>) \o IntToText(d.deck_type) \o S(<<";">>)
                \o JoinIds(d.characters) \o S(<<";">>)
                \o JoinIds(d.cards) \o S(<<";">>)
                \o IntToText(d.max_card_limit) \o S(<<";">>)
    IN  [d EXCEPT !.deck_code = encode_deck_code(data)]

\* sorted(list(elements)) over the elements of all cards
SortedElements(cards) ==
    LET present == {e \in PHYSICAL..WIND :
                      \E i \in 1..Len(cards) : InList(e, cards[i].elements)}
        below(e) == Cardinality({x \in present : x < e})
    IN  [k \in 1..Cardinality(present) |-> CHOOSE e \in present : below(e) = k - 1]

\* Deck._update_deck_elements
update_deck_elements(d) == [d EXCEPT !.deck_elements = SortedElements(d.cards)]

\* Deck.__init__
Deck(name, deck_type) ==
    update_deck_code([name |-> name, deck_type |-> deck_type, cards |-> <<>>,
                      characters |-> <<>>, deck_elements |-> <<>>,
                      deck_code |-> <<>>, max_card_limit |-> 20])

\* add_card without the test that keeps FUNNY cards out of a standard deck
add_card_any_rarity(d, card) ==
    IF Len(d.cards) >= d.max_card_limit THEN [deck |-> d, ok |-> FALSE]
    ELSE [deck |-> update_deck_code(update_deck_elements(
                       [d EXCEPT !.cards = Append(d.cards, card)])),
          ok |-> TRUE]

\* add_card that leaves the deck code as it was
add_card_stale_code(d, card) ==
    IF d.deck_type = STANDARD /\ card.rarity = FUNNY THEN [deck |-> d, ok |-> FALSE]
    ELSE IF Len(d.cards) >= d.max_card_limit THEN [deck |-> d, ok |-> FALSE]
    ELSE [deck |-> update_deck_elements([d EXCEPT !.cards = Append(d.cards, card)]),
          ok |-> TRUE]

\* Deck.add_card: the deck after the call and the value returned
add_card(d, card) ==
    IF d.deck_type = STANDARD /\ card.rarity = FUNNY THEN [deck |-> d, ok |-> FALSE]
    ELSE IF Len(d.cards) >= d.max_card_limit THEN [deck |-> d, ok |-> FALSE]
    ELSE [deck |-> update_deck_code(update_deck_elements(
                       [d EXCEPT !.cards = Append(d.cards, card)])),
          ok |-> TRUE]

\* Deck.add_character
add_character(d, character) ==
    IF Len(d.characters) >= 3 THEN [deck |-> d, ok |-> FALSE]
    ELSE [deck |-> update_deck_code([d EXCEPT !.characters = Append(d.characters, character)]),
          ok |-> TRUE]

\* Deck.remove_card(card_name): the first card of that name leaves the deck.
\* The cards of the model carry no display name; card_name is given as the id
\* of the catalog card that bears it (names and ids of the catalog's cards
\* correspond one to one).
remove_card(d, card_name) ==
    LET found == {i \in 1..Len(d.cards) : d.cards[i].id = card_name}
    IN  IF found = {} THEN [deck |-> d, ok |-> FALSE]
        ELSE [deck |-> update_deck_code(update_deck_elements(
                           [d EXCEPT !.cards =
                               PopAt(d.cards, (CHOOSE i \in found : \A j \in found : i <= j) - 1)])),
              ok |-> TRUE]

\* Deck.remove_character(character_name), the name given as the id of the
\* catalog character that bears it
remove_character(d, character_name) ==
    LET found == {i \in 1..Len(d.characters) : d.characters[i].id = character_name}
    IN  IF found = {} THEN [deck |-> d, ok |-> FALSE]
        ELSE [deck |-> update_deck_code(
                           [d EXCEPT !.characters =
                               PopAt(d.characters,
                                     (CHOOSE i \in found : \A j \in found : i <= j) - 1)]),
              ok |-> TRUE]

\* as LookupAll, but the list ends at the first id the catalog does not hold
LookupAll_until_unknown(ids, catalog) ==
    Concat([k \in 1..Len(ids) |->
              IF \A n \in 1..k : \E i \in 1..Len(catalog) : catalog[i].id = ids[n]
              THEN <<catalog[CHOOSE i \in 1..Len(catalog) : catalog[i].id = ids[k]]>>
              ELSE <<>>])

\* the catalog entries named by a list of ids, in order: an empty id and an
\* id the catalog does not hold are skipped
LookupAll(ids, catalog) ==
    Concat([k \in 1..Len(ids) |->
              LET found == {i \in 1..Len(catalog) : catalog[i].id = ids[k]}
              IN  IF ids[k] # <<>> /\ found # {}
                  THEN <<catalog[CHOOSE i \in found : \A j \in found : i <= j]>>
                  ELSE <<>>])

\* DeckType(n) raises ValueError for an n that is no member
IsDeckType(n) == n \in {STANDARD, CASUAL}

\* ids.split(',') if ids else []
IdList(ids) == IF ids # <<>> THEN Split(ids, Ord(",")) ELSE <<>>

\* import_from_code from the DeckType(int(parts[1])) line on: self.name is
\* assigned already, so an exception here leaves the new name in place
ImportTyped(named, code, parts, ordinal, limit) ==
    IF ~ordinal.ok \/ ~IsDeckType(ordinal.value)
    THEN [deck |-> named, ok |-> FALSE]
    ELSE [deck |-> update_deck_elements(
                     [named EXCEPT
                        !.deck_type = ordinal.value,
                        !.characters = LookupAll(IdList(parts[3]), all_characters),
                        !.cards = LookupAll(IdList(parts[4]), all_cards),
                        !.max_card_limit = IF limit.ok THEN limit.value ELSE @,
                        !.deck_code = code]),
          ok |-> TRUE]

\* import_from_code from the len(parts) < 4 test on
ImportParts(d, code, parts) ==
    IF Len(parts) < 4 THEN [deck |-> d, ok |-> FALSE]
    ELSE ImportTyped([d EXCEPT !.name = parts[1]], code, parts, ParseInt(parts[2]),
                     IF Len(parts) >= 5 THEN ParseInt(parts[5])
                     ELSE [ok |-> FALSE, value |-> 0])

\* import_from_code after decode_deck_code returned
ImportDecoded(d, code, decoded) ==
    IF ~decoded.valid THEN [deck |-> d, ok |-> FALSE]
    ELSE ImportParts(d, code, Split(decoded.data, Ord(";")))

\* Deck.import_from_code(code, all_cards, all_characters): the deck after the
\* call and the value returned.  The assignments run in source order, so an
\* exception leaves in place what was assigned before it.
import_from_code(d, code) == ImportDecoded(d, code, decode_deck_code(code))

\* ------------------------------------------------------------ BattleScene

\* every order random.shuffle can leave a list in
Shuffles(list) ==
    {[i \in 1..Len(list) |-> list[f[i]]] :
        f \in {g \in [1..Len(list) -> 1..Len(list)] :
                 \A a, b \in 1..Len(list) : g[a] = g[b] => a = b}}

\* _init_battle that deals two cards
InitialPlayer_two_cards(deck, shuffled) ==
    LET chars == SubSeq(deck.characters, 1, Min(3, Len(deck.characters)))
        drawn == Min(2, Len(shuffled))
    IN  [NewPlayerBattleState EXCEPT
           !.chars = [i \in 1..Len(chars) |-> NewCharacterState(chars[i])],
           !.hand = SubSeq(shuffled, 1, drawn),
           !.deck = SubSeq(shuffled, drawn + 1, Len(shuffled))]

\* the side _init_battle builds from a deck, its card copy in the order the
\* shuffle left: characters[:3] at full health, then three draws from the top
InitialPlayer(deck, shuffled) ==
    LET chars == SubSeq(deck.characters, 1, Min(3, Len(deck.characters)))
        drawn == Min(3, Len(shuffled))
    IN  [NewPlayerBattleState EXCEPT
           !.chars = [i \in 1..Len(chars) |-> NewCharacterState(chars[i])],
           !.hand = SubSeq(shuffled, 1, drawn),
           !.deck = SubSeq(shuffled, drawn + 1, Len(shuffled))]

\* any(e in actor.character.elements for e in card.elements)
element_match(card, character) ==
    \E i \in 1..Len(card.elements) : InList(card.elements[i], character.elements)

\* final_dmg of play_card
final_dmg(card, character) ==
    Max(1, card.cost) * (IF element_match(card, character) /\ is_mage(character) THEN 2 ELSE 1)

\* hit_character without the reserve stepping in
hit_character_without_reserve(opponent, target_idx, dmg, is_magic) ==
    IF target_idx < Len(opponent.chars)
    THEN LET hit == take_damage(opponent.chars[target_idx + 1], dmg, is_magic)
         IN  [opponent EXCEPT
                 !.chars[target_idx + 1] = hit.cs,
                 !.base_hp = IF hit.overflow > 0 THEN @ - hit.overflow ELSE @]
    ELSE opponent

\* hit_character without the overflow onto the base
hit_character_without_overflow(opponent, target_idx, dmg, is_magic) ==
    IF target_idx < Len(opponent.chars)
    THEN LET hit == take_damage(opponent.chars[target_idx + 1], dmg, is_magic)
             struck == [opponent EXCEPT !.chars[target_idx + 1] = hit.cs]
         IN  IF hit.cs.cur_hp <= 0 /\ has_reserve(struck) /\ struck.chars[3].cur_hp > 0
             THEN [struck EXCEPT
                     !.chars = PopAt([struck.chars EXCEPT ![target_idx + 1] = struck.chars[3]], 2)]
             ELSE struck
    ELSE opponent

\* the damage part of play_card on a character target: take_damage, the
\* overflow onto the base, and the reserve stepping in for a defeated target
hit_character(opponent, target_idx, dmg, is_magic) ==
    IF target_idx < Len(opponent.chars)
    THEN LET hit == take_damage(opponent.chars[target_idx + 1], dmg, is_magic)
             struck == [opponent EXCEPT
                          !.chars[target_idx + 1] = hit.cs,
                          !.base_hp = IF hit.overflow > 0 THEN @ - hit.overflow ELSE @]
         IN  IF hit.cs.cur_hp <= 0 /\ has_reserve(struck) /\ struck.chars[3].cur_hp > 0
             THEN [struck EXCEPT
                     !.chars = PopAt([struck.chars EXCEPT ![target_idx + 1] = struck.chars[3]], 2)]
             ELSE struck
    ELSE opponent

\* play_card without the test of energy and base mana against the cost
play_card_without_resource_test(current_player, opponent, hand_index, actor_index, target) ==
    LET card == current_player.hand[hand_index + 1]
        actor == current_player.chars[actor_index + 1]
        is_physical == InList(PHYSICAL, card.elements)
        actor_is_mage == is_mage(actor.character)
        cost == IF is_physical THEN 0 ELSE card.cost
        paid == IF cost > 0 THEN pay_cost(current_player, cost, actor_index)
                ELSE [p |-> current_player, ok |-> TRUE]
        dmg == final_dmg(card, actor.character)
        rejected == [played |-> FALSE, current_player |-> current_player, opponent |-> opponent]
    IN  IF hand_index < 0 \/ actor_index < 0 \/ target = NoTarget THEN rejected
        ELSE IF ~can_attack(actor) THEN rejected
        ELSE IF ~actor_is_mage /\ ~is_physical THEN rejected
        ELSE IF ~paid.ok THEN [rejected EXCEPT !.current_player = paid.p]
        ELSE [played |-> TRUE,
              current_player |-> [paid.p EXCEPT
                                    !.hand = PopAt(@, hand_index),
                                    !.discard = Append(@, card)],
              opponent |-> IF target = "b"
                           THEN [opponent EXCEPT !.base_hp = @ - dmg]
                           ELSE hit_character(opponent, TargetIndex(target), dmg, ~is_physical)]

\* play_card without the test that keeps a non-mage actor to physical cards
play_card_without_element_test(current_player, opponent, hand_index, actor_index, target) ==
    LET card == current_player.hand[hand_index + 1]
        actor == current_player.chars[actor_index + 1]
        is_physical == InList(PHYSICAL, card.elements)
        actor_is_mage == is_mage(actor.character)
        cost == IF is_physical THEN 0 ELSE card.cost
        total_available == (IF actor_is_mage THEN actor.cur_energy ELSE 0)
                           + current_player.base_mana
        paid == IF cost > 0 THEN pay_cost(current_player, cost, actor_index)
                ELSE [p |-> current_player, ok |-> TRUE]
        dmg == final_dmg(card, actor.character)
        rejected == [played |-> FALSE, current_player |-> current_player, opponent |-> opponent]
    IN  IF hand_index < 0 \/ actor_index < 0 \/ target = NoTarget THEN rejected
        ELSE IF ~can_attack(actor) THEN rejected
        ELSE IF cost > 0 /\ total_available < cost THEN rejected
        ELSE IF ~paid.ok THEN [rejected EXCEPT !.current_player = paid.p]
        ELSE [played |-> TRUE,
              current_player |-> [paid.p EXCEPT
                                    !.hand = PopAt(@, hand_index),
                                    !.discard = Append(@, card)],
              opponent |-> IF target = "b"
                           THEN [opponent EXCEPT !.base_hp = @ - dmg]
                           ELSE hit_character(opponent, TargetIndex(target), dmg, ~is_physical)]

\* play_card with the played card removed from the hand and put nowhere
play_card_without_discard(current_player, opponent, hand_index, actor_index, target) ==
    LET card == current_player.hand[hand_index + 1]
        actor == current_player.chars[actor_index + 1]
        is_physical == InList(PHYSICAL, card.elements)
        actor_is_mage == is_mage(actor.character)
        cost == IF is_physical THEN 0 ELSE card.cost
        total_available == (IF actor_is_mage THEN actor.cur_energy ELSE 0)
                           + current_player.base_mana
        paid == IF cost > 0 THEN pay_cost(current_player, cost, actor_index)
                ELSE [p |-> current_player, ok |-> TRUE]
        dmg == final_dmg(card, actor.character)
        rejected == [played |-> FALSE, current_player |-> current_player, opponent |-> opponent]
    IN  IF hand_index < 0 \/ actor_index < 0 \/ target = NoTarget THEN rejected
        ELSE IF ~can_attack(actor) THEN rejected
        ELSE IF ~actor_is_mage /\ ~is_physical THEN rejected
        ELSE IF cost > 0 /\ total_available < cost THEN rejected
        ELSE IF ~paid.ok THEN [rejected EXCEPT !.current_player = paid.p]
        ELSE [played |-> TRUE,
              current_player |-> [paid.p EXCEPT !.hand = PopAt(@, hand_index)],
              opponent |-> IF target = "b"
                           THEN [opponent EXCEPT !.base_hp = @ - dmg]
                           ELSE hit_character(opponent, TargetIndex(target), dmg, ~is_physical)]

\* BattleScene.play_card on the two sides: whether the card was played, and
\* the sides after the call
play_card(current_player, opponent, hand_index, actor_index, target) ==
    LET card == current_player.hand[hand_index + 1]
        actor == current_player.chars[actor_index + 1]
        is_physical == InList(PHYSICAL, card.elements)
        actor_is_mage == is_mage(actor.character)
        cost == IF is_physical THEN 0 ELSE card.cost
        total_available == (IF actor_is_mage THEN actor.cur_energy ELSE 0)
                           + current_player.base_mana
        paid == IF cost > 0 THEN pay_cost(current_player, cost, actor_index)
                ELSE [p |-> current_player, ok |-> TRUE]
        dmg == final_dmg(card, actor.character)
        rejected == [played |-> FALSE, current_player |-> current_player, opponent |-> opponent]
    IN  IF hand_index < 0 \/ actor_index < 0 \/ target = NoTarget THEN rejected
        ELSE IF ~can_attack(actor) THEN rejected
        ELSE IF ~actor_is_mage /\ ~is_physical THEN rejected
        ELSE IF cost > 0 /\ total_available < cost THEN rejected
        ELSE IF ~paid.ok THEN [rejected EXCEPT !.current_player = paid.p]
        ELSE [played |-> TRUE,
              current_player |-> [paid.p EXCEPT
                                    !.hand = PopAt(@, hand_index),
                                    !.discard = Append(@, card)],
              opponent |-> IF target = "b"
                           THEN [opponent EXCEPT !.base_hp = @ - dmg]
                           ELSE hit_character(opponent, TargetIndex(target), dmg, ~is_physical)]

\* the battle goes on whatever the bases are: play_card without its win check
still_started_without_win_check(p1, p2) == TRUE

still_started_p1_only(p1, p2) == ~(p1.base_hp <= 0)

\* the win check that ends play_card: the battle goes on unless a base is down
still_started(p1, p2) == ~(p1.base_hp <= 0) /\ ~(p2.base_hp <= 0)

\* the side the win check names as winner (0 = nobody)
winner(p1, p2) == IF p1.base_hp <= 0 THEN 2 ELSE IF p2.base_hp <= 0 THEN 1 ELSE 0

next_turn_kept(turn) == turn

\* self.current_turn = 1 - self.current_turn
next_turn(turn) == 1 - turn

\* ------------------------------------------------------- battle: bounds

\* end_turn is offered while turn_number is below MaxTurns
MaxTurns == 3

\* play_card is offered until MaxPlays cards were played
MaxPlays == 2

\* ------------------------------------------------- battle: the deck list

\* a deck filled through add_character / add_card from catalog ids
RECURSIVE WithCharacters(_, _)
WithCharacters(d, ids) ==
    IF ids = <<>> THEN d
    ELSE WithCharacters(add_character(d, find_character_by_id(ids[1])).deck, Tail(ids))

RECURSIVE WithCards(_, _)
WithCards(d, ids) ==
    IF ids = <<>> THEN d
    ELSE WithCards(add_card(d, find_card_by_id(ids[1])).deck, Tail(ids))

\* a casual deck with a reserve: two mages around a warrior
DeckA ==
    WithCards(
        WithCharacters(Deck(S(<<"A">>), CASUAL),
            <<S(<<"w","a","t","e","r","_","m","a","g","e","1">>),
              S(<<"w","a","r","r","i","o","r">>),
              S(<<"f","i","r","e","_","m","a","g","e","1">>)>>),
        <<S(<<"T","e","a","r","A","l","l">>),
          S(<<"T","e","a","r","A","l","l">>),
          S(<<"T","e","a","r","A","l","l">>),
          S(<<"W","o","r","d","l","e">>)>>)

\* a standard deck without a reserve
DeckB ==
    WithCards(
        WithCharacters(Deck(S(<<"B">>), STANDARD),
            <<S(<<"d","a","r","k","_","m","a","g","e","1">>),
              S(<<"k","n","i","g","h","t">>)>>),
        <<S(<<"T","e","a","r","A","l","l">>),
          S(<<"T","e","a","r","A","l","l">>),
          S(<<"T","e","a","r","A","l","l">>),
          S(<<"T","e","a","r","A","l","l">>)>>)

\* a deck without characters and cards, as do_import appends it for the code
\* of such a deck
DeckE ==
    import_from_code(Deck(S(<<"E">>), STANDARD),
                     Deck(S(<<"E">>), STANDARD).deck_code).deck

\* the deck lists a battle is opened on
DeckLists == {<<DeckA>>, <<DeckA, DeckB>>, <<DeckA, DeckE>>}

\* ------------------------------------------------------ battle: actions

current_player == IF current_turn = 0 THEN player1 ELSE player2

opponent_player == IF current_turn = 0 THEN player2 ELSE player1

\* BattleScene.__init__ with _init_battle
Init ==
    \E decks \in DeckLists :
        /\ game_decks = decks
        /\ current_turn = 0
        /\ turn_number = 1
        /\ selected_hand_index = -1
        /\ selected_actor_index = -1
        /\ selected_target = NoTarget
        /\ announced_winner = 0
        /\ end_turns = 0
        /\ plays = 0
        /\ ignored_events = FALSE
        /\ built_deck = None
        /\ deck_code = <<>>
        /\ exported_deck = None
        /\ decode_result = None
        /\ import_result = None
        /\ NoNetwork
        /\ rule_call = None
        /\ IF Len(decks) < 2
           THEN /\ player1 = None
                /\ player2 = None
                /\ battle_started = FALSE
           ELSE \E s1 \in Shuffles(decks[1].cards), s2 \in Shuffles(decks[2].cards) :
                /\ player1 = InitialPlayer(decks[1], s1)
                /\ player2 = InitialPlayer(decks[2], s2)
                /\ battle_started = TRUE

\* handle_event while the battle is not running: only the back button is served
IgnoreEvent ==
    /\ ignored_events' = TRUE
    /\ UNCHANGED <<game_decks, player1, player2, current_turn, turn_number,
                   selected_hand_index, selected_actor_index, selected_target,
                   battle_started, announced_winner, end_turns, plays>>

\* handle_event, a click on the i-th hand card of the player to move
ClickHandCard ==
    /\ UNCHANGED <<codec_vars, net_vars, rule_vars>>
    /\ IF ~battle_started THEN IgnoreEvent
       ELSE \E i \in 0..(Len(current_player.hand) - 1) :
               /\ selected_hand_index' = i
               /\ UNCHANGED <<game_decks, player1, player2, current_turn, turn_number,
                              selected_actor_index, selected_target, battle_started,
                              announced_winner, end_turns, plays, ignored_events>>

\* handle_event, a click on one of the active characters of the player to move
ClickOwnCharacter ==
    /\ UNCHANGED <<codec_vars, net_vars, rule_vars>>
    /\ IF ~battle_started THEN IgnoreEvent
       ELSE \E i \in 0..(Min(2, Len(current_player.chars)) - 1) :
               /\ selected_actor_index' = i
               /\ UNCHANGED <<game_decks, player1, player2, current_turn, turn_number,
                              selected_hand_index, selected_target, battle_started,
                              announced_winner, end_turns, plays, ignored_events>>

\* handle_event, a click on one of the opponent's active characters
ClickTarget ==
    /\ UNCHANGED <<codec_vars, net_vars, rule_vars>>
    /\ IF ~battle_started THEN IgnoreEvent
       ELSE \E i \in 0..(Min(2, Len(opponent_player.chars)) - 1) :
               /\ selected_target' = TargetName(i)
               /\ UNCHANGED <<game_decks, player1, player2, current_turn, turn_number,
                              selected_hand_index, selected_actor_index, battle_started,
                              announced_winner, end_turns, plays, ignored_events>>

\* handle_event, a click on the opponent's base
ClickBase ==
    /\ UNCHANGED <<codec_vars, net_vars, rule_vars>>
    /\ IF ~battle_started THEN IgnoreEvent
       ELSE /\ selected_target' = "b"
            /\ UNCHANGED <<game_decks, player1, player2, current_turn, turn_number,
                           selected_hand_index, selected_actor_index, battle_started,
                           announced_winner, end_turns, plays, ignored_events>>

\* handle_event, a click on the play button: play_card
ClickPlay ==
    /\ UNCHANGED <<codec_vars, net_vars, rule_vars>>
    /\ IF ~battle_started THEN IgnoreEvent
       ELSE LET r == play_card(current_player, opponent_player, selected_hand_index,
                               selected_actor_index, selected_target)
                p1 == IF current_turn = 0 THEN r.current_player ELSE r.opponent
                p2 == IF current_turn = 0 THEN r.opponent ELSE r.current_player
            IN  /\ plays < MaxPlays
                /\ player1' = p1
                /\ player2' = p2
                /\ IF r.played
                   THEN /\ selected_hand_index' = -1
                        /\ selected_actor_index' = -1
                        /\ selected_target' = NoTarget
                        /\ battle_started' = still_started(p1, p2)
                        /\ announced_winner' = winner(p1, p2)
                        /\ plays' = plays + 1
                   ELSE UNCHANGED <<selected_hand_index, selected_actor_index, selected_target,
                                    battle_started, announced_winner, plays>>
                /\ UNCHANGED <<game_decks, current_turn, turn_number, end_turns, ignored_events>>

\* handle_event, a click on the end-turn button: end_turn
ClickEndTurn ==
    /\ UNCHANGED <<codec_vars, net_vars, rule_vars>>
    /\ IF ~battle_started THEN IgnoreEvent
       ELSE /\ turn_number < MaxTurns
            /\ current_turn' = next_turn(current_turn)
            /\ turn_number' = turn_number + 1
            /\ selected_hand_index' = -1
            /\ selected_actor_index' = -1
            /\ selected_target' = NoTarget
            /\ player1' = IF next_turn(current_turn) = 0 THEN start_turn(player1) ELSE player1
            /\ player2' = IF next_turn(current_turn) = 0 THEN player2 ELSE start_turn(player2)
            /\ end_turns' = end_turns + 1
            /\ UNCHANGED <<game_decks, battle_started, announced_winner, plays, ignored_events>>

Next ==
    \/ ClickHandCard
    \/ ClickOwnCharacter
    \/ ClickTarget
    \/ ClickBase
    \/ ClickPlay
    \/ ClickEndTurn

Spec == Init /\ [][Next]_vars

\* ------------------------------------------------------- battle: claims

\* a battle was set up and a base is at 0 HP or below
BaseDown == player1 # None /\ (player1.base_hp <= 0 \/ player2.base_hp <= 0)

\* what BattleScene holds of the battle
scene_state ==
    <<player1, player2, current_turn, turn_number, selected_hand_index,
      selected_actor_index, selected_target, battle_started, announced_winner>>

\* C1: once a base is at 0 HP or below the battle is finished and the other
\* side is the logged winner, and from then on no event (no play, no end of
\* turn, no selection) changes anything the scene holds of the battle.
C1_FinishedBattleIsFrozen ==
    /\ [](BaseDown =>
            /\ ~battle_started
            /\ player1.base_hp <= 0 => announced_winner = 2
            /\ player2.base_hp <= 0 => announced_winner = 1)
    /\ [](announced_winner # 0 => BaseDown)
    /\ [][BaseDown => UNCHANGED <<scene_state, end_turns, plays>>]_vars

\* C1 witness: player 2's base went down, player 1 is the logged winner, and an
\* event arrived afterwards and was ignored
C1_Witness ==
    /\ BaseDown /\ player2.base_hp <= 0
    /\ announced_winner = 1
    /\ ignored_events

\* C2: the turn counter is 1 plus the number of end_turn calls and the side to
\* move is the first mover exactly after an even number of them; a step is an
\* end_turn exactly when the side to move changes, and it then flips the side,
\* adds one to the counter, clears the selection and runs start_turn on the
\* new side to move and on nobody else; playing a card leaves turn and counter.
C2_EndTurnAlternates ==
    /\ [](turn_number = 1 + end_turns /\ current_turn = end_turns % 2)
    /\ [][/\ (end_turns' # end_turns) = (current_turn' # current_turn)
          /\ end_turns' # end_turns =>
                /\ end_turns' = end_turns + 1
                /\ current_turn' = 1 - current_turn
                /\ turn_number' = turn_number + 1
                /\ selected_hand_index' = -1
                /\ selected_actor_index' = -1
                /\ selected_target' = NoTarget
                /\ IF current_turn' = 0
                   THEN player1' = start_turn(player1) /\ player2' = player2
                   ELSE player2' = start_turn(player2) /\ player1' = player1
          /\ plays' # plays => UNCHANGED <<current_turn, turn_number>>]_vars

\* C2 witness: two end_turn calls ran, it is turn 3 and the first mover's
\* turn again, and a card was played on the way
C2_Witness ==
    /\ end_turns = 2 /\ turn_number = 3 /\ current_turn = 0
    /\ plays > 0

\* ---------------------------------------------------- deck codes: bounds

\* characters and cards put into a deck before its code is carried over
MaxDeckCharacters == 2

MaxDeckCards == 2

\* ---------------------------------------------------- deck codes: inputs

\* the names decks are created under
DeckNames == {S(<<"A">>), <<25105, 30340>>, S(<<"A", ";", "B">>)}

\* the catalog characters and cards decks are filled from: a mage and a
\* fighter; a common card, the card with a comma in its id, a FUNNY card
CharacterPool ==
    <<find_character_by_id(S(<<"w", "a", "t", "e", "r", "_", "m", "a", "g", "e", "1">>)),
      find_character_by_id(S(<<"k", "n", "i", "g", "h", "t">>))>>

CardPool ==
    <<find_card_by_id(S(<<"T", "e", "a", "r", "A", "l", "l">>)),
      find_card_by_id(S(<<"L", "a", "z", "a", "r", "u", "s", ",", "A", "r", "i", "s", "e", "!">>)),
      find_card_by_id(S(<<"W", "o", "r", "d", "l", "e">>))>>

\* the name typed into the import scene
ImportName == S(<<"N">>)

\* data texts a typed deck code may carry
Payloads ==
    {
       \* an empty standard deck
       S(<<"X", ";", "1", ";", ";", ";", "2", "0", ";">>),
       \* ids the catalog does not hold, limit 7
       S(<<"X", ";", "2", ";", "k", "n", "i", "g", "h", "t", ",", "n", "o",
         "b", "o", "d", "y", ",", "w", "a", "r", "r", "i", "o", "r", ";", "T",
         "e", "a", "r", "A", "l", "l", ",", "N", "o", "t", "h", "i", "n", "g",
         ",", "W", "o", "r", "d", "l", "e", ",", "T", "e", "a", "r", "A", "l",
         "l", ";", "7", ";">>),
       \* a deck-type ordinal that is no DeckType
       S(<<"X", ";", "9", ";", "k", "n", "i", "g", "h", "t", ";", "T", "e",
         "a", "r", "A", "l", "l", ";", "2", "0", ";">>),
       \* a deck type that is no number
       S(<<"X", ";", "x", ";", ";", ";", "2", "0", ";">>),
       \* three fields
       S(<<"X", ";", "1", ";", "k", "n", "i", "g", "h", "t">>),
       \* four fields, no limit
       S(<<"X", ";", "1", ";", "k", "n", "i", "g", "h", "t", ";", "T", "e",
         "a", "r", "A", "l", "l">>),
       \* blanks around the type, empty ids, a limit that is no number
       S(<<"X", ";", " ", "2", " ", ";", ",", "k", "n", "i", "g", "h", "t",
         ",", ";", "W", "o", "r", "d", "l", "e", ",", ",", "W", "o", "r", "d",
         "l", "e", ";", "z", "z", ";">>),
       \* a bar in the name
       S(<<"A", "|", "B", ";", "1", ";", ";", ";", "2", "0", ";">>),
       \* a name outside ASCII
       <<25105>> \o S(<<";", "1", ";", ";", ";", "2", "0", ";">>),
       \* no data at all
       <<>>
    }

\* a checksum no payload above has
WrongChecksum == S(<<"0", "0", "0", "0">>)

\* the deck codes typed for one data text: the code encode_deck_code gives,
\* the same between blanks, with its last character missing, with a wrong
\* checksum, without the checksum part, and with a third part
CodesOf(data) ==
    { encode_deck_code(data),
      S(<<" ">>) \o encode_deck_code(data) \o S(<<" ">>),
      SubSeq(encode_deck_code(data), 1, Len(encode_deck_code(data)) - 1),
      b64encode(Utf8Encode(data \o S(<<"|">>) \o WrongChecksum)),
      b64encode(Utf8Encode(data)),
      b64encode(Utf8Encode(data \o S(<<"|">>) \o generate_checksum(data) \o S(<<"|">>))) }

\* every deck code typed: the codes of the payloads, a code outside ASCII,
\* and base64 of bytes that are no UTF-8
TypedCodes ==
    UNION {CodesOf(data) : data \in Payloads}
        \cup {<<25105>>, b64encode(<<88, 255, 124, 48, 48, 48, 48>>)}

\* --------------------------------------------------- deck codes: actions

\* a deck is created; nothing is typed, decoded or imported yet
InitCodec ==
    /\ \E name \in DeckNames, deck_type \in {STANDARD, CASUAL} :
            built_deck = Deck(name, deck_type)
    /\ deck_code = <<>>
    /\ exported_deck = None
    /\ decode_result = None
    /\ import_result = None
    /\ game_decks = <<>>
    /\ player1 = None
    /\ player2 = None
    /\ current_turn = 0
    /\ turn_number = 1
    /\ selected_hand_index = -1
    /\ selected_actor_index = -1
    /\ selected_target = NoTarget
    /\ battle_started = FALSE
    /\ announced_winner = 0
    /\ end_turns = 0
    /\ plays = 0
    /\ ignored_events = FALSE
    /\ NoNetwork
    /\ rule_call = None

\* Deck.add_character with a catalog character
AddCharacter ==
    \E i \in 1..Len(CharacterPool) :
        /\ deck_code = <<>>
        /\ Len(built_deck.characters) < MaxDeckCharacters
        /\ built_deck' = add_character(built_deck, CharacterPool[i]).deck
        /\ UNCHANGED <<deck_code, exported_deck, decode_result, import_result, battle_vars, net_vars, rule_vars>>

\* Deck.add_card with a catalog card
AddCard ==
    \E i \in 1..Len(CardPool) :
        /\ deck_code = <<>>
        /\ Len(built_deck.cards) < MaxDeckCards
        /\ built_deck' = add_card(built_deck, CardPool[i]).deck
        /\ UNCHANGED <<deck_code, exported_deck, decode_result, import_result, battle_vars, net_vars, rule_vars>>

\* the code of the deck is carried over to the import scene
ExportCode ==
    /\ deck_code = <<>>
    /\ deck_code' = built_deck.deck_code
    /\ exported_deck' = built_deck
    /\ UNCHANGED <<built_deck, decode_result, import_result, battle_vars, net_vars, rule_vars>>

\* a code is typed into the import scene
TypeCode ==
    \E code \in TypedCodes :
        /\ deck_code = <<>>
        /\ built_deck.characters = <<>> /\ built_deck.cards = <<>>
        /\ deck_code' = code
        /\ UNCHANGED <<built_deck, exported_deck, decode_result, import_result, battle_vars, net_vars, rule_vars>>

\* decode_deck_code on the code text as it stands
DecodeCode ==
    /\ IF decode_result = None THEN TRUE ELSE decode_result.code # deck_code
    /\ decode_result' = [code |-> deck_code, returned |-> decode_deck_code(deck_code)]
    /\ UNCHANGED <<built_deck, deck_code, exported_deck, import_result, battle_vars, net_vars, rule_vars>>

\* Deck(name).import_from_code(code.strip(), all_cards, all_characters)
ImportCode ==
    /\ deck_code # <<>>
    /\ import_result = None
    /\ import_result' =
          [code |-> Strip(deck_code),
           before |-> Deck(ImportName, STANDARD),
           returned |-> import_from_code(Deck(ImportName, STANDARD), Strip(deck_code))]
    /\ UNCHANGED <<built_deck, deck_code, exported_deck, decode_result, battle_vars, net_vars, rule_vars>>

NextCodec ==
    \/ AddCharacter
    \/ AddCard
    \/ ExportCode
    \/ TypeCode
    \/ DecodeCode
    \/ ImportCode

SpecCodec == InitCodec /\ [][NextCodec]_vars

\* ---------------------------------------------------- deck codes: claims

\* the ids of a list of cards or characters
Ids(items) == [i \in 1..Len(items) |-> items[i].id]

\* a name with none of ';', ',' and '|' in it
PlainName(name) == \A i \in 1..Len(name) : name[i] \notin {Ord(";"), Ord(","), Ord("|")}

KnownCharacter(id) == \E i \in 1..Len(all_characters) : all_characters[i].id = id

KnownCard(id) == \E i \in 1..Len(all_cards) : all_cards[i].id = id

\* C7, as claimed: for a deck filled from the catalog through add_character and
\* add_card under a name without ';', ',' and '|', importing its deck_code into
\* a fresh Deck succeeds and gives back its name, type, character ids, card
\* ids in order and number, and max_card_limit.
C7_RoundTripAsClaimed ==
    (import_result # None /\ exported_deck # None) =>
        (PlainName(exported_deck.name) =>
            /\ import_result.returned.ok
            /\ import_result.returned.deck.name = exported_deck.name
            /\ import_result.returned.deck.deck_type = exported_deck.deck_type
            /\ Ids(import_result.returned.deck.characters) = Ids(exported_deck.characters)
            /\ Ids(import_result.returned.deck.cards) = Ids(exported_deck.cards)
            /\ import_result.returned.deck.max_card_limit = exported_deck.max_card_limit)

\* C8: decode_deck_code returns (payload, True) exactly when base64 and UTF-8
\* decoding succeed, the decoded text has one '|' and so two parts, and the
\* checksum of the part before it is the part after it; the payload is the
\* part before the bar; in every other case it returns (None, False).
C8_DecodeValidity ==
    decode_result # None =>
        LET raw == b64decode(decode_result.code)
            decoded == IF raw.ok THEN Utf8Decode(raw.bytes) ELSE [ok |-> FALSE, text |-> <<>>]
            bars == {i \in 1..Len(decoded.text) : decoded.text[i] = Ord("|")}
            bar == CHOOSE i \in bars : TRUE
            sound == /\ raw.ok
                     /\ decoded.ok
                     /\ Cardinality(bars) = 1
                     /\ generate_checksum(SubSeq(decoded.text, 1, bar - 1))
                            = SubSeq(decoded.text, bar + 1, Len(decoded.text))
        IN  decode_result.returned =
                IF sound THEN [data |-> SubSeq(decoded.text, 1, bar - 1), valid |-> TRUE]
                ELSE [data |-> NoneData, valid |-> FALSE]

\* C8 witness: a code was decoded whose content has two parts and a checksum
\* part that is not the checksum of the payload, and it came back invalid
C8_Witness ==
    /\ decode_result # None
    /\ ~decode_result.returned.valid
    /\ b64decode(decode_result.code).ok
    /\ Utf8Decode(b64decode(decode_result.code).bytes).ok
    /\ Len(Split(Utf8Decode(b64decode(decode_result.code).bytes).text, Ord("|"))) = 2

\* C9, as claimed: whenever import_from_code returns False the Deck is as it
\* was before the call, name, deck_type, characters, cards, max_card_limit and
\* deck_code alike.
C9_FailedImportAsClaimed ==
    import_result # None =>
        (~import_result.returned.ok => import_result.returned.deck = import_result.before)

\* C10: for a code with a valid checksum and at least four fields, a deck type
\* that is a DeckType member makes the import succeed with exactly the ids of
\* the character and card fields the catalog holds, in the order of the
\* fields; a deck type that is no member makes import_from_code return False.
C10_UnknownIdsOmitted ==
    import_result # None =>
        LET decoded == decode_deck_code(import_result.code)
            parts == Split(decoded.data, Ord(";"))
            ordinal == ParseInt(parts[2])
        IN  (decoded.valid /\ Len(parts) >= 4) =>
                IF ordinal.ok /\ ordinal.value \in {STANDARD, CASUAL}
                THEN /\ import_result.returned.ok
                     /\ Ids(import_result.returned.deck.characters)
                            = SelectSeq(Split(parts[3], Ord(",")), KnownCharacter)
                     /\ Ids(import_result.returned.deck.cards)
                            = SelectSeq(Split(parts[4], Ord(",")), KnownCard)
                ELSE ~import_result.returned.ok

\* C10 witness: an import succeeded from a typed code whose card field names
\* cards of the catalog and ids the catalog does not hold, and the deck holds
\* fewer cards than the field has entries
C10_Witness ==
    /\ import_result # None
    /\ exported_deck = None
    /\ import_result.returned.ok
    /\ Len(import_result.returned.deck.cards) = 3
    /\ Len(Split(Split(decode_deck_code(import_result.code).data, Ord(";"))[4], Ord(","))) = 4

\* ------------------------------------------------------ LAN lobby: bounds

\* the two instances together send at most MaxSent lines by a turn button
\* (PLAY and ENDTURN lines)
MaxSent == 2

\* the two instances together take at most MaxClicks clicks on the battlefield
MaxClicks == 3

\* at most MaxShortReads recv calls return less than what is waiting
MaxShortReads == 1

\* a recv call that returns less than what is waiting leaves at most
\* MaxLeftWaiting bytes of it
MaxLeftWaiting == 2

\* ------------------------------------------------------- LAN lobby: scene

\* the words of the line protocol
NamePrefix == S(<<"N", "A", "M", "E", ";">>)

EmojiPrefix == S(<<"E", "M", "O", "J", "I", ";">>)

PlayPrefix == S(<<"P", "L", "A", "Y", ";">>)

DeckPrefix == S(<<"D", "E", "C", "K", ";">>)

StartBattleLine == S(<<"S", "T", "A", "R", "T", "B", "A", "T", "T", "L", "E">>)

EndTurnLine == S(<<"E", "N", "D", "T", "U", "R", "N">>)

\* the instance that creates the room and the instance that joins it
Host == 1

Client == 2

Sides == {Host, Client}

Peer(s) == 3 - s

\* self.player_name as __init__ leaves it
player_name == <<29609, 23478>>

\* NetworkLobbyScene.__init__ in a game that holds the deck list decks;
\* connect_pc is where _connect_thread stands: not started ("idle"), before
\* accept / connect returns ("connect"), in the wait for the name
\* ("handshake"), or over ("done"); recv_pc is where _recv_thread stands:
\* not started ("idle"), in its loop ("recv"), or returned ("done"); closed
\* tells that disconnect has closed the socket, and game_state is the scene
\* the game shows ("EXIT": Game.run was left by an error and main returned)
NewLobbyScene(decks) ==
    [decks |-> decks,
     mode |-> "None",
     stage |-> 0,
     opponent_name |-> <<23545, 25163>>,
     conn_socket |-> FALSE,
     closed |-> FALSE,
     net_running |-> FALSE,
     connect_pc |-> "idle",
     recv_pc |-> "idle",
     game_state |-> "NETWORK_LOBBY",
     message_queue |-> <<>>,
     local_player |-> None,
     remote_player |-> None,
     my_turn |-> FALSE,
     selected_hand_index |-> -1,
     selected_actor_index |-> -1,
     selected_target |-> NoTarget,
     network_battle_started |-> FALSE]

\* what a handler leaves: the scene after it and the lines it passed to
\* _send_message, in order
Quiet(sc) == [scene |-> sc, out |-> <<>>]

\* the bytes _send_message writes for a list of lines
WireBytes(lines) == Concat([i \in 1..Len(lines) |-> Utf8Encode(Append(lines[i], 10))])

\* f"DECK;{deck.name};{deck.deck_code}"
DeckLine(d) == DeckPrefix \o d.name \o S(<<";">>) \o d.deck_code

\* the orders random.shuffle can leave the copy of the first deck's cards in,
\* where start_network_battle can still run
DeckShuffles(sc) ==
    IF sc.decks = <<>> \/ sc.local_player # None THEN {<<>>}
    ELSE Shuffles(sc.decks[1].cards)

\* the guard of network_end_turn and network_play_card, and of the clicks of
\* handle_network_battle_event, with nothing required of my_turn
turn_allowed_started_only(sc) == sc.network_battle_started

\* the guard of network_end_turn and network_play_card, and of the clicks of
\* handle_network_battle_event
turn_allowed(sc) == sc.network_battle_started /\ sc.my_turn

\* start_network_battle, the shuffle leaving the card copy as shuffled
start_network_battle(sc, shuffled) ==
    IF Len(sc.decks) = 0 THEN Quiet(sc)
    ELSE [scene |-> [sc EXCEPT
                       !.local_player =
                           IF sc.my_turn
                           THEN start_turn(InitialPlayer(sc.decks[1], shuffled))
                           ELSE InitialPlayer(sc.decks[1], shuffled),
                       !.network_battle_started = TRUE,
                       !.stage = 4],
          out |-> <<StartBattleLine>>]

\* network_end_turn
network_end_turn(sc) ==
    IF ~turn_allowed(sc) THEN Quiet(sc)
    ELSE [scene |-> [sc EXCEPT !.my_turn = FALSE],
          out |-> <<EndTurnLine>>]

\* final_dmg of execute_play_card, the damage it logs: the mage test is the
\* attribute actor.character.is_mage, a method that is not called and counts
\* as true
execute_final_dmg(card, character) ==
    Max(1, card.cost) * (IF element_match(card, character) /\ TRUE THEN 2 ELSE 1)

\* execute_play_card on the local player: the cost is paid and the card goes
\* from the hand to the discard pile; the damage is only logged
execute_play_card(p, hand_idx, actor_idx) ==
    LET card == p.hand[hand_idx + 1]
        cost == IF InList(PHYSICAL, card.elements) THEN 0 ELSE card.cost
        paid == IF cost > 0 THEN pay_cost(p, cost, actor_idx).p ELSE p
    IN  [paid EXCEPT !.hand = PopAt(@, hand_idx), !.discard = Append(@, card)]

\* f"PLAY;{card.id};{self.selected_actor_index};{self.selected_target}"
PlayLine(card, actor_index, target) ==
    PlayPrefix \o card.id \o S(<<";">>) \o IntToText(actor_index)
        \o S(<<";">>) \o (IF target = "b" THEN S(<<"b">>) ELSE S(<<"t", "0">>))

\* network_play_card
network_play_card(sc) ==
    LET card == sc.local_player.hand[sc.selected_hand_index + 1]
        actor == sc.local_player.chars[sc.selected_actor_index + 1]
        is_physical == InList(PHYSICAL, card.elements)
        actor_is_mage == is_mage(actor.character)
        cost == IF is_physical THEN 0 ELSE card.cost
        total_available == (IF actor_is_mage THEN actor.cur_energy ELSE 0)
                           + sc.local_player.base_mana
    IN  IF ~turn_allowed(sc) THEN Quiet(sc)
        ELSE IF sc.selected_hand_index < 0 \/ sc.selected_actor_index < 0
                \/ sc.selected_target = NoTarget THEN Quiet(sc)
        ELSE IF ~actor_is_mage /\ ~is_physical THEN Quiet(sc)
        ELSE IF total_available < cost THEN Quiet(sc)
        ELSE [scene |-> [sc EXCEPT
                           !.local_player = execute_play_card(sc.local_player,
                                                sc.selected_hand_index,
                                                sc.selected_actor_index),
                           !.selected_hand_index = -1,
                           !.selected_actor_index = -1,
                           !.selected_target = NoTarget],
              out |-> <<PlayLine(card, sc.selected_actor_index, sc.selected_target)>>]

\* prepare_opponent_battle
prepare_opponent_battle(sc, shuffled) ==
    IF sc.local_player = None
    THEN start_network_battle([sc EXCEPT !.remote_player = NewPlayerBattleState], shuffled)
    ELSE Quiet([sc EXCEPT !.remote_player = NewPlayerBattleState])

\* handle_message with a PLAY line that costs the local base a point
handle_message_play_hits_base(sc, msg, shuffled) ==
    IF StartsWith(msg, PlayPrefix) /\ sc.local_player # None
    THEN Quiet([sc EXCEPT !.local_player.base_hp = @ - 1])
    ELSE Quiet(sc)

\* handle_message with an EMOJI line that hands over the turn
handle_message_emoji_takes_turn(sc, msg, shuffled) ==
    IF StartsWith(msg, EmojiPrefix) THEN Quiet([sc EXCEPT !.my_turn = TRUE])
    ELSE IF StartsWith(msg, NamePrefix)
    THEN Quiet([sc EXCEPT !.opponent_name = Split1(msg, Ord(";"))[2]])
    ELSE Quiet(sc)

\* handle_message where it returns; handle_opponent_play only writes to the
\* log, and the int(parts[2]) before it succeeds on every PLAY line
\* network_play_card builds (handle_message_raises tells where it fails)
handle_message(sc, msg, shuffled) ==
    IF StartsWith(msg, NamePrefix)
    THEN Quiet([sc EXCEPT !.opponent_name = Split1(msg, Ord(";"))[2]])
    ELSE IF StartsWith(msg, EmojiPrefix) THEN Quiet(sc)
    ELSE IF StartsWith(msg, PlayPrefix) THEN Quiet(sc)
    ELSE IF StartsWith(msg, DeckPrefix)
    THEN [scene |-> sc,
          out |-> IF sc.mode = "client" /\ Len(sc.decks) > 0
                  THEN <<DeckLine(sc.decks[1])>> ELSE <<>>]
    ELSE IF StartsWith(msg, StartBattleLine)
    THEN [scene |-> [prepare_opponent_battle(sc, shuffled).scene EXCEPT !.stage = 4],
          out |-> prepare_opponent_battle(sc, shuffled).out]
    ELSE IF msg = EndTurnLine
    THEN Quiet([sc EXCEPT !.my_turn = TRUE,
                          !.local_player = IF @ = None THEN @ ELSE start_turn(@)])
    ELSE Quiet(sc)

\* handle_message on a handler's result: the lines sent add up
ThenMessage(h, msg, shuffled) ==
    [scene |-> handle_message(h.scene, msg, shuffled).scene,
     out |-> h.out \o handle_message(h.scene, msg, shuffled).out]

\* process_messages on the lines the queue held, the queue itself emptied
RECURSIVE process_messages(_, _, _)
process_messages(h, lines, shuffled) ==
    IF lines = <<>> THEN h
    ELSE process_messages(ThenMessage(h, Head(lines), shuffled), Tail(lines), shuffled)

\* handle_message raises: int(parts[2]) on a PLAY line of four or more fields
\* whose third field is no integer (ValueError); no other statement of
\* handle_message can fail
handle_message_raises(msg) ==
    /\ StartsWith(msg, PlayPrefix)
    /\ Len(Split(msg, Ord(";"))) >= 4
    /\ ~ParseInt(Split(msg, Ord(";"))[3]).ok

\* the place of the first line on which handle_message raises, 0 if none
RaisingIndex(lines) ==
    LET raising == {i \in 1..Len(lines) : handle_message_raises(lines[i])}
    IN  IF raising = {} THEN 0
        ELSE CHOOSE i \in raising : \A j \in raising : i <= j

\* update at stage 3 or 4: process_messages takes the lines off the queue one
\* by one.  It catches queue.Empty only, so an error raised by handle_message
\* leaves update and Game.run with the later lines still queued, and main
\* ends the program
update(sc, shuffled) ==
    LET lines == sc.message_queue
        k == RaisingIndex(lines)
        before == process_messages(
                      Quiet([sc EXCEPT !.message_queue = SubSeq(lines, k + 1, Len(lines))]),
                      SubSeq(lines, 1, k - 1), shuffled)
    IN  IF k = 0
        THEN process_messages(Quiet([sc EXCEPT !.message_queue = <<>>]), lines, shuffled)
        ELSE [scene |-> [before.scene EXCEPT !.game_state = "EXIT"], out |-> before.out]

\* the lines a call of update takes off the queue
TakenByUpdate(lines) ==
    IF RaisingIndex(lines) = 0 THEN lines ELSE SubSeq(lines, 1, RaisingIndex(lines))

\* _connect_thread without the assignment of stage 3
FinishHandshake_without_stage(sc) ==
    [scene |-> [sc EXCEPT !.connect_pc = "done"],
     out |-> IF sc.mode = "host" /\ Len(sc.decks) > 0
             THEN <<DeckLine(sc.decks[1])>> ELSE <<>>]

\* the end of _connect_thread: stage 3, and the host sends its first deck
FinishHandshake(sc) ==
    [scene |-> [sc EXCEPT !.stage = 3, !.connect_pc = "done"],
     out |-> IF sc.mode = "host" /\ Len(sc.decks) > 0
             THEN <<DeckLine(sc.decks[1])>> ELSE <<>>]

\* the complete non-empty lines of a text, what the loop of _recv_thread puts
\* on the queue
CompleteLines(text) ==
    SelectSeq(SubSeq(Split(text, 10), 1, Len(Split(text, 10)) - 1), LAMBDA line : line # <<>>)

\* the rest of a text after its last newline, what _recv_thread keeps in buffer
Remainder(text) == Split(text, 10)[Len(Split(text, 10))]

\* the lines of a list that a turn button sent
ByHand(lines) ==
    SelectSeq(lines, LAMBDA line :
        \/ StartsWith(line, PlayPrefix)
        \/ line = EndTurnLine)

\* ----------------------------------------------------- LAN lobby: actions

\* two instances open the lobby; the first holds deck B, the second deck A
InitNet ==
    /\ lobby = <<NewLobbyScene(<<DeckB>>), NewLobbyScene(<<DeckA>>)>>
    /\ wire = <<<<>>, <<>>>>
    /\ recv_buffer = <<<<>>, <<>>>>
    /\ sent = <<<<>>, <<>>>>
    /\ applied = <<<<>>, <<>>>>
    /\ short_reads = 0
    /\ clicks = 0
    /\ game_decks = <<>>
    /\ player1 = None
    /\ player2 = None
    /\ current_turn = 0
    /\ turn_number = 1
    /\ selected_hand_index = -1
    /\ selected_actor_index = -1
    /\ selected_target = NoTarget
    /\ battle_started = FALSE
    /\ announced_winner = 0
    /\ end_turns = 0
    /\ plays = 0
    /\ ignored_events = FALSE
    /\ built_deck = None
    /\ deck_code = <<>>
    /\ exported_deck = None
    /\ decode_result = None
    /\ import_result = None
    /\ rule_call = None

\* _send_message reaches the peer: there is a socket, and disconnect has not
\* closed it (send on a closed socket raises, and the error is swallowed)
CanSend(sc) == sc.conn_socket /\ ~sc.closed

\* a handler of instance s ends: its scene, and the lines it sent on the wire
\* to the peer (_send_message writes only through a socket)
Sends(s, h) ==
    /\ lobby' = [lobby EXCEPT ![s] = h.scene]
    /\ wire' = [wire EXCEPT ![Peer(s)] =
                    @ \o (IF CanSend(h.scene) THEN WireBytes(h.out) ELSE <<>>)]
    /\ sent' = [sent EXCEPT ![s] = @ \o (IF CanSend(h.scene) THEN h.out ELSE <<>>)]

\* Game.run hands events and updates to the current scene only
InScene(s) == lobby[s].game_state = "NETWORK_LOBBY"

\* select_mode: the first instance creates the room, the second joins
SelectMode ==
    \E s \in Sides :
        /\ InScene(s)
        /\ lobby[s].stage = 0
        /\ lobby' = [lobby EXCEPT ![s].mode = IF s = Host THEN "host" ELSE "client",
                                  ![s].stage = 1]
        /\ UNCHANGED <<wire, recv_buffer, sent, applied, short_reads, clicks,
                       battle_vars, codec_vars, rule_vars>>

\* start_connection: _connect_thread is started
StartConnection ==
    \E s \in Sides :
        /\ InScene(s)
        /\ lobby[s].stage = 1
        /\ lobby' = [lobby EXCEPT ![s].stage = 2, ![s].connect_pc = "connect"]
        /\ UNCHANGED <<wire, recv_buffer, sent, applied, short_reads, clicks,
                       battle_vars, codec_vars, rule_vars>>

\* _connect_thread of the host from accept, which returns once the peer has
\* connected, to the sending of the name
HostAccept ==
    /\ lobby[Host].connect_pc = "connect"
    /\ lobby[Client].conn_socket
    /\ Sends(Host, [scene |-> [lobby[Host] EXCEPT !.conn_socket = TRUE,
                                                  !.my_turn = TRUE,
                                                  !.net_running = TRUE,
                                                  !.recv_pc = "recv",
                                                  !.connect_pc = "handshake"],
                    out |-> <<NamePrefix \o player_name>>])
    /\ UNCHANGED <<recv_buffer, applied, short_reads, clicks, battle_vars, codec_vars, rule_vars>>

\* _connect_thread of the joining instance from connect, which returns once
\* the host listens, to the sending of the name
ClientConnect ==
    /\ lobby[Client].connect_pc = "connect"
    /\ lobby[Host].connect_pc = "connect"
    /\ Sends(Client, [scene |-> [lobby[Client] EXCEPT !.conn_socket = TRUE,
                                                      !.my_turn = FALSE,
                                                      !.net_running = TRUE,
                                                      !.recv_pc = "recv",
                                                      !.connect_pc = "handshake"],
                      out |-> <<NamePrefix \o player_name>>])
    /\ UNCHANGED <<recv_buffer, applied, short_reads, clicks, battle_vars, codec_vars, rule_vars>>

\* the wait of _connect_thread takes a line off the queue: a NAME line ends
\* the wait, any other line is let go
HandshakeLine ==
    \E s \in Sides :
        /\ lobby[s].connect_pc = "handshake"
        /\ lobby[s].message_queue # <<>>
        /\ Sends(s, IF StartsWith(Head(lobby[s].message_queue), NamePrefix)
                    THEN FinishHandshake(
                            [lobby[s] EXCEPT
                               !.message_queue = Tail(@),
                               !.opponent_name =
                                   Split1(Head(lobby[s].message_queue), Ord(";"))[2]])
                    ELSE Quiet([lobby[s] EXCEPT !.message_queue = Tail(@)]))
        /\ applied' = [applied EXCEPT ![s] = Append(@, Head(lobby[s].message_queue))]
        /\ UNCHANGED <<recv_buffer, short_reads, clicks, battle_vars, codec_vars, rule_vars>>

\* the wait of _connect_thread runs out of its five seconds, the queue empty
HandshakeTimeout ==
    \E s \in Sides :
        /\ lobby[s].connect_pc = "handshake"
        /\ lobby[s].message_queue = <<>>
        /\ Sends(s, FinishHandshake(lobby[s]))
        /\ UNCHANGED <<recv_buffer, applied, short_reads, clicks, battle_vars, codec_vars, rule_vars>>

\* what a recv call can return of the bytes that wait: all of them, or all
\* but the last few
ReadSizes(waiting) ==
    {Min(4096, Len(waiting))}
        \cup (IF short_reads < MaxShortReads
              THEN Max(1, Len(waiting) - MaxLeftWaiting)..(Len(waiting) - 1) ELSE {})

\* the rest of a round of _recv_thread on what decode made of the chunk: the
\* complete lines go on the queue, and a chunk that is no UTF-8 text ends the
\* thread
Received(r, data) ==
    IF data.ok
    THEN /\ lobby' = [lobby EXCEPT ![r].message_queue =
                          @ \o CompleteLines(recv_buffer[r] \o data.text)]
         /\ recv_buffer' = [recv_buffer EXCEPT ![r] = Remainder(@ \o data.text)]
    ELSE /\ lobby' = [lobby EXCEPT ![r].net_running = FALSE, ![r].recv_pc = "done"]
         /\ recv_buffer' = [recv_buffer EXCEPT ![r] = <<>>]

\* one round of _recv_thread: recv returns the first n bytes that wait and
\* the chunk is decoded on its own
RecvThread ==
    \E r \in Sides : \E n \in ReadSizes(wire[r]) :
        /\ lobby[r].recv_pc = "recv"
        /\ lobby[r].net_running
        /\ n >= 1
        /\ short_reads' = IF n < Len(wire[r]) THEN short_reads + 1 ELSE short_reads
        /\ wire' = [wire EXCEPT ![r] = SubSeq(@, n + 1, Len(@))]
        /\ Received(r, Utf8Decode(SubSeq(wire[r], 1, n)))
        /\ UNCHANGED <<sent, applied, clicks, battle_vars, codec_vars, rule_vars>>

\* update: process_messages drains the queue through handle_message, as far
\* as handle_message returns
ProcessMessages ==
    \E s \in Sides :
        /\ InScene(s)
        /\ lobby[s].stage >= 3
        /\ lobby[s].message_queue # <<>>
        /\ \E shuffled \in DeckShuffles(lobby[s]) :
                Sends(s, update(lobby[s], shuffled))
        /\ applied' = [applied EXCEPT ![s] = @ \o TakenByUpdate(lobby[s].message_queue)]
        /\ UNCHANGED <<recv_buffer, short_reads, clicks, battle_vars, codec_vars, rule_vars>>

\* handle_event at stage 3, a click on the start button: start_network_battle
ClickStartBattle ==
    \E s \in Sides :
        /\ InScene(s)
        /\ lobby[s].stage = 3
        /\ \E shuffled \in DeckShuffles(lobby[s]) :
                Sends(s, start_network_battle(lobby[s], shuffled))
        /\ UNCHANGED <<recv_buffer, applied, short_reads, clicks, battle_vars, codec_vars, rule_vars>>

\* handle_network_battle_event, a click that selects the first hand card, the
\* first character or the opponent's base
ClickBattlefield ==
    \E s \in Sides :
        /\ InScene(s)
        /\ lobby[s].stage = 4
        /\ turn_allowed(lobby[s])
        /\ clicks < MaxClicks
        /\ clicks' = clicks + 1
        /\ \/ /\ Len(lobby[s].local_player.hand) > 0
              /\ lobby[s].selected_hand_index # 0
              /\ lobby' = [lobby EXCEPT ![s].selected_hand_index = 0]
           \/ /\ Len(lobby[s].local_player.chars) > 0
              /\ lobby[s].selected_actor_index # 0
              /\ lobby' = [lobby EXCEPT ![s].selected_actor_index = 0]
           \/ /\ lobby[s].selected_target # "b"
              /\ lobby' = [lobby EXCEPT ![s].selected_target = "b"]
        /\ UNCHANGED <<wire, recv_buffer, sent, applied, short_reads,
                       battle_vars, codec_vars, rule_vars>>

\* handle_network_battle_event, a click on the play button: network_play_card
ClickNetworkPlayCard ==
    \E s \in Sides :
        /\ InScene(s)
        /\ lobby[s].stage = 4
        /\ turn_allowed(lobby[s])
        /\ Len(ByHand(sent[Host])) + Len(ByHand(sent[Client])) < MaxSent
        /\ Sends(s, network_play_card(lobby[s]))
        /\ UNCHANGED <<recv_buffer, applied, short_reads, clicks, battle_vars, codec_vars, rule_vars>>

\* handle_network_battle_event, a click on the end-turn button: network_end_turn
ClickNetworkEndTurn ==
    \E s \in Sides :
        /\ InScene(s)
        /\ lobby[s].stage = 4
        /\ turn_allowed(lobby[s])
        /\ Len(ByHand(sent[Host])) + Len(ByHand(sent[Client])) < MaxSent
        /\ Sends(s, network_end_turn(lobby[s]))
        /\ UNCHANGED <<recv_buffer, applied, short_reads, clicks, battle_vars, codec_vars, rule_vars>>

NextNet ==
    \/ SelectMode
    \/ StartConnection
    \/ HostAccept
    \/ ClientConnect
    \/ HandshakeLine
    \/ HandshakeTimeout
    \/ RecvThread
    \/ ProcessMessages
    \/ ClickStartBattle
    \/ ClickBattlefield
    \/ ClickNetworkPlayCard
    \/ ClickNetworkEndTurn

SpecNet == InitNet /\ [][NextNet]_vars

\* ------------------------------------------------------ LAN lobby: claims

\* the lines sent to instance r that it has not applied yet, as far as they
\* can still come: those on its queue, then the complete lines of what its
\* receive buffer and the bytes that wait for it hold
Underway(r) ==
    lobby[r].message_queue \o CompleteLines(recv_buffer[r] \o Utf8Decode(wire[r]).text)

\* C3: the lines an instance has taken off its queue, followed by the lines
\* still on their way to it, are at every moment the lines its peer has sent,
\* each once and in the order sent
C3_LinesOnceAndInOrder ==
    \A r \in Sides : applied[r] \o Underway(r) = sent[Peer(r)]

\* a line is a PLAY line
IsPlay(line) == StartsWith(line, PlayPrefix)

\* a line is the ENDTURN line
IsEndTurn(line) == line = EndTurnLine

\* C4: once an instance in battle has applied every line its peer has sent,
\* a PLAY among them, its copy of the remote player has the hand, the discard
\* pile, the base mana, the base HP and the characters of the player the peer
\* plays with
C4_ReplicaFollowsPlays ==
    \A r \in Sides :
        (/\ lobby[r].remote_player # None
         /\ lobby[Peer(r)].local_player # None
         /\ applied[r] = sent[Peer(r)]
         /\ \E k \in 1..Len(applied[r]) : IsPlay(applied[r][k]))
        => /\ lobby[r].remote_player.hand = lobby[Peer(r)].local_player.hand
           /\ lobby[r].remote_player.discard = lobby[Peer(r)].local_player.discard
           /\ lobby[r].remote_player.base_mana = lobby[Peer(r)].local_player.base_mana
           /\ lobby[r].remote_player.base_hp = lobby[Peer(r)].local_player.base_hp
           /\ lobby[r].remote_player.chars = lobby[Peer(r)].local_player.chars

\* _connect_thread of instance s is past accept / connect
Connected(s) == lobby[s].connect_pc \in {"handshake", "done"}

\* instance s has sent an ENDTURN line
HasEndedATurn(s) == \E k \in 1..Len(sent[s]) : IsEndTurn(sent[s][k])

\* the host holds the turn from the connection on until somebody ends a turn,
\* and never do both sides hold it
TurnHeldByOne ==
    /\ ~(lobby[Host].my_turn /\ lobby[Client].my_turn)
    /\ (Connected(Host) /\ Connected(Client)
            /\ ~HasEndedATurn(Host) /\ ~HasEndedATurn(Client))
           => lobby[Host].my_turn /\ ~lobby[Client].my_turn

\* a step in which a side plays a card or ends its turn starts with that side
\* holding the turn; a side loses the turn only as it sends ENDTURN, and gets
\* it only as the host at the connection or as it applies an ENDTURN line
\* that its peer, the holder, has sent
TurnPassesByEndTurn ==
    \A s \in Sides :
        /\ ByHand(sent'[s]) # ByHand(sent[s]) => lobby[s].my_turn
        /\ (lobby[s].my_turn /\ ~lobby'[s].my_turn)
               => sent'[s] = Append(sent[s], EndTurnLine)
        /\ (~lobby[s].my_turn /\ lobby'[s].my_turn)
               => \/ s = Host /\ ~Connected(Host) /\ Connected(Host)'
                  \/ /\ \E k \in (Len(applied[s]) + 1)..Len(applied'[s]) :
                            IsEndTurn(applied'[s][k])
                     /\ HasEndedATurn(Peer(s))
                     /\ ~lobby[Peer(s)].my_turn

\* C5: in a connected pair the host starts with the turn and the joining side
\* without it, at most one side holds the turn in any state, a side plays a
\* card or ends its turn only while it holds the turn, and the turn goes over
\* only through an ENDTURN line sent by the side that held it
C5_TurnOwnership == [][TurnHeldByOne' /\ TurnPassesByEndTurn]_vars

\* C5: the joining side holds the turn after it applied the host's ENDTURN
C5_Witness ==
    /\ lobby[Client].my_turn
    /\ ~lobby[Host].my_turn
    /\ HasEndedATurn(Host)
    /\ \E k \in 1..Len(applied[Client]) : IsEndTurn(applied[Client][k])

\* the lines instance s takes off its queue in a step
Processed(s) == SubSeq(applied'[s], Len(applied[s]) + 1, Len(applied'[s]))

\* start_turn n times over
RECURSIVE StartTurns(_, _)
StartTurns(p, n) == IF n = 0 THEN p ELSE StartTurns(start_turn(p), n - 1)

\* a step in which instance s plays a card or ends its turn leaves its copy
\* of the remote player alone, and a step of its receive thread leaves
\* everything of the scene alone but the queue, which grows at its end, and
\* the flag and the position of the thread
LocalAndReceiveSteps(s) ==
    /\ ByHand(sent'[s]) # ByHand(sent[s])
           => lobby'[s].remote_player = lobby[s].remote_player
    /\ Len(wire'[s]) < Len(wire[s])
           => /\ lobby'[s] = [lobby[s] EXCEPT
                                 !.message_queue = lobby'[s].message_queue,
                                 !.net_running = lobby'[s].net_running,
                                 !.recv_pc = lobby'[s].recv_pc]
              /\ Len(lobby'[s].message_queue) >= Len(lobby[s].message_queue)
              /\ SubSeq(lobby'[s].message_queue, 1, Len(lobby[s].message_queue))
                    = lobby[s].message_queue
              /\ applied'[s] = applied[s]

\* C6 as stated: a step that applies received lines leaves the local player
\* as it was, a step that plays a card or ends the turn leaves the copy of
\* the remote player as it was, and a step of the receive thread only puts
\* lines on the queue
C6_MessagesLeaveLocalPlayer ==
    [][\A s \in Sides :
          /\ applied'[s] # applied[s] => lobby'[s].local_player = lobby[s].local_player
          /\ LocalAndReceiveSteps(s)]_vars

\* C6, amended: a step that applies received lines changes the local player
\* by one start_turn for every ENDTURN line among them and in no other way
\* once the local battle is set up, and sets the local battle up only for a
\* STARTBATTLE line; PLAY lines change nothing of it; a step that plays a
\* card or ends the turn leaves the copy of the remote player as it was, and
\* a step of the receive thread only puts lines on the queue
C6_MessagesOnlyStartLocalTurns ==
    [][\A s \in Sides :
          /\ applied'[s] # applied[s] =>
                 IF lobby[s].local_player # None
                 THEN lobby'[s].local_player
                        = StartTurns(lobby[s].local_player,
                                     Len(SelectSeq(Processed(s), IsEndTurn)))
                 ELSE lobby'[s].local_player # None
                        => \E k \in 1..Len(Processed(s)) :
                               StartsWith(Processed(s)[k], StartBattleLine)
          /\ LocalAndReceiveSteps(s)]_vars

\* C6: an instance in battle has applied a PLAY line and an ENDTURN line of
\* its peer
C6_Witness ==
    \E s \in Sides :
        /\ lobby[s].local_player # None
        /\ lobby[s].remote_player # None
        /\ \E k \in 1..Len(applied[s]) : IsPlay(applied[s][k])
        /\ \E k \in 1..Len(applied[s]) : IsEndTurn(applied[s][k])

\* ------------------------------------------------- battle rules: inputs

\* a CharacterState of a catalog character in the middle of a battle
CharacterStateOf(char_id, hp, energy, taunt) ==
    [NewCharacterState(find_character_by_id(char_id)) EXCEPT
        !.cur_hp = hp, !.cur_energy = energy, !.taunt = taunt]

\* the costs pay_cost is called with
RuleCosts == {0, 5, 12, 40}

\* the amounts take_damage is called with
RuleDamages == {1, 4, 12, 36}

\* the side that plays: a water mage and a warrior, a costly water card and a
\* physical card in hand
RuleAttacker(hp, energy, mana) ==
    [NewPlayerBattleState EXCEPT
        !.base_mana = mana,
        !.chars = <<CharacterStateOf(S(<<"w", "a", "t", "e", "r", "_", "m", "a", "g", "e", "1">>),
                                     hp, energy, FALSE),
                    CharacterStateOf(S(<<"w", "a", "r", "r", "i", "o", "r">>), 35, 0, FALSE)>>,
        !.hand = <<find_card_by_id(S(<<"T", "e", "a", "r", "A", "l", "l">>)),
                   find_card_by_id(S(<<"W", "o", "r", "d", "l", "e">>))>>]

RuleAttackers ==
    {RuleAttacker(hp, energy, mana) : hp \in {0, 9}, energy \in {0, 5, 20}, mana \in {0, 3, 20}}

\* the side that is played on: a dark mage and a knight in front, with or
\* without a fire mage in reserve
RuleDefender(hp0, energy0, taunt0, hp1, taunt1, reserve) ==
    [NewPlayerBattleState EXCEPT
        !.chars = <<CharacterStateOf(S(<<"d", "a", "r", "k", "_", "m", "a", "g", "e", "1">>),
                                     hp0, energy0, taunt0),
                    CharacterStateOf(S(<<"k", "n", "i", "g", "h", "t">>), hp1, 0, taunt1)>>
                  \o (IF reserve
                      THEN <<CharacterStateOf(
                                S(<<"f", "i", "r", "e", "_", "m", "a", "g", "e", "1">>),
                                18, 11, FALSE)>>
                      ELSE <<>>)]

\* a reserve waits only behind two living characters: it steps in for the
\* first that falls
RuleDefenders ==
    {RuleDefender(hp0, energy0, taunt0, hp1, taunt1, hp0 > 0 /\ hp1 > 0 /\ reserve) :
        hp0 \in {0, 5, 22}, energy0 \in {0, 10}, taunt0 \in BOOLEAN,
        hp1 \in {0, 40}, taunt1 \in BOOLEAN, reserve \in BOOLEAN}

\* the draw piles a turn starts on: empty, one card, two cards
RulePiles ==
    {<<>>,
     <<find_card_by_id(S(<<"W", "o", "r", "d", "l", "e">>))>>,
     <<find_card_by_id(S(<<"T", "e", "a", "r", "A", "l", "l">>)),
       find_card_by_id(S(<<"W", "o", "r", "d", "l", "e">>))>>}

\* the side p with the draw pile pile
WithPile(p, pile) == [p EXCEPT !.deck = pile]

\* nothing in the program sets taunt: a play meets no taunting character
NoTaunt(p) == \A i \in 1..Len(p.chars) : ~p.chars[i].taunt

\* ------------------------------------------------ battle rules: actions

\* two sides in the middle of a battle, no rule called yet
InitRules ==
    /\ \/ /\ player1 \in RuleAttackers
          /\ player2 = RuleDefender(22, 10, FALSE, 40, FALSE, TRUE)
       \/ /\ player1 = RuleAttacker(9, 20, 20)
          /\ player2 \in RuleDefenders
       \/ /\ player1 \in {WithPile(RuleAttacker(9, energy, 20), pile) :
                             energy \in {5, 20}, pile \in RulePiles}
          /\ player2 \in {WithPile(RuleDefender(hp0, 10, FALSE, 40, FALSE, hp0 > 0), pile) :
                             hp0 \in {0, 22}, pile \in RulePiles}
    /\ rule_call = None
    /\ game_decks = <<>>
    /\ current_turn = 0
    /\ turn_number = 1
    /\ selected_hand_index = -1
    /\ selected_actor_index = -1
    /\ selected_target = NoTarget
    /\ battle_started = TRUE
    /\ announced_winner = 0
    /\ end_turns = 0
    /\ plays = 0
    /\ ignored_events = FALSE
    /\ built_deck = None
    /\ deck_code = <<>>
    /\ exported_deck = None
    /\ decode_result = None
    /\ import_result = None
    /\ NoNetwork

\* player1.pay_cost(cost, player1.chars[actor_idx])
CallPayCost ==
    \E cost \in RuleCosts, actor_idx \in 0..1 :
        /\ rule_call = None
        /\ player1' = pay_cost(player1, cost, actor_idx).p
        /\ rule_call' = [op |-> "pay_cost", cost |-> cost, actor_idx |-> actor_idx,
                         before |-> player1,
                         returned |-> pay_cost(player1, cost, actor_idx).ok]
        /\ UNCHANGED <<game_decks, player2, current_turn, turn_number, selected_hand_index,
                       selected_actor_index, selected_target, battle_started,
                       announced_winner, end_turns, plays, ignored_events,
                       codec_vars, net_vars>>

\* player2.chars[target_idx].take_damage(damage, is_magic, player2)
CallTakeDamage ==
    \E target_idx \in 0..1, damage \in RuleDamages, is_magic \in BOOLEAN :
        /\ rule_call = None
        /\ NoTaunt(player2)
        /\ player2' = [player2 EXCEPT !.chars[target_idx + 1] =
                          take_damage(player2.chars[target_idx + 1], damage, is_magic).cs]
        /\ rule_call' = [op |-> "take_damage", target_idx |-> target_idx, damage |-> damage,
                         is_magic |-> is_magic, before |-> player2,
                         returned |-> take_damage(player2.chars[target_idx + 1],
                                                  damage, is_magic).overflow]
        /\ UNCHANGED <<game_decks, player1, current_turn, turn_number, selected_hand_index,
                       selected_actor_index, selected_target, battle_started,
                       announced_winner, end_turns, plays, ignored_events,
                       codec_vars, net_vars>>

\* player1.get_valid_targets(attacker, player2)
CallGetValidTargets ==
    /\ rule_call = None
    /\ rule_call' = [op |-> "get_valid_targets", before |-> player2,
                     returned |-> get_valid_targets(player2)]
    /\ UNCHANGED <<battle_vars, codec_vars, net_vars>>

\* play_card with player1 to move and the selection made
CallPlayCard ==
    \E hand_index \in -1..1, actor_index \in -1..1, target \in {NoTarget, "b", "t0", "t1"} :
        /\ rule_call = None
        /\ NoTaunt(player2)
        /\ player1' = play_card(player1, player2, hand_index, actor_index, target).current_player
        /\ player2' = play_card(player1, player2, hand_index, actor_index, target).opponent
        /\ rule_call' = [op |-> "play_card", hand_index |-> hand_index,
                         actor_index |-> actor_index, target |-> target,
                         before |-> <<player1, player2>>,
                         returned |-> play_card(player1, player2, hand_index, actor_index,
                                                target).played,
                         logged |-> IF play_card(player1, player2, hand_index, actor_index,
                                                 target).played
                                    THEN final_dmg(player1.hand[hand_index + 1],
                                                   player1.chars[actor_index + 1].character)
                                    ELSE 0]
        /\ UNCHANGED <<game_decks, current_turn, turn_number, selected_hand_index,
                       selected_actor_index, selected_target, battle_started,
                       announced_winner, end_turns, plays, ignored_events,
                       codec_vars, net_vars>>

\* network_play_card with player1 as the local player, on its turn and past
\* the tests on selection, actor and resources: execute_play_card
CallExecutePlayCard ==
    \E hand_index \in 0..1, actor_index \in 0..1, target \in {"b", "t0"} :
        LET card == player1.hand[hand_index + 1]
            actor == player1.chars[actor_index + 1]
            is_physical == InList(PHYSICAL, card.elements)
            actor_is_mage == is_mage(actor.character)
            cost == IF is_physical THEN 0 ELSE card.cost
            total_available == (IF actor_is_mage THEN actor.cur_energy ELSE 0)
                               + player1.base_mana
        IN  /\ rule_call = None
            /\ NoTaunt(player2)
            /\ ~(~actor_is_mage /\ ~is_physical)
            /\ ~(total_available < cost)
            /\ player1' = execute_play_card(player1, hand_index, actor_index)
            /\ rule_call' = [op |-> "execute_play_card", hand_index |-> hand_index,
                             actor_index |-> actor_index, target |-> target,
                             before |-> <<player1, player2>>,
                             returned |-> TRUE,
                             logged |-> execute_final_dmg(card, actor.character)]
            /\ UNCHANGED <<game_decks, player2, current_turn, turn_number,
                           selected_hand_index, selected_actor_index, selected_target,
                           battle_started, announced_winner, end_turns, plays,
                           ignored_events, codec_vars, net_vars>>

\* end_turn's next_player.start_turn(), for either side
CallStartTurn ==
    \E side \in 1..2 :
        /\ rule_call = None
        /\ player1' = IF side = 1 THEN start_turn(player1) ELSE player1
        /\ player2' = IF side = 2 THEN start_turn(player2) ELSE player2
        /\ rule_call' = [op |-> "start_turn", side |-> side,
                         before |-> <<player1, player2>>]
        /\ UNCHANGED <<game_decks, current_turn, turn_number, selected_hand_index,
                       selected_actor_index, selected_target, battle_started,
                       announced_winner, end_turns, plays, ignored_events,
                       codec_vars, net_vars>>

NextRules ==
    \/ CallStartTurn
    \/ CallPayCost
    \/ CallTakeDamage
    \/ CallGetValidTargets
    \/ CallPlayCard
    \/ CallExecutePlayCard

SpecRules == InitRules /\ [][NextRules]_vars

\* ------------------------------------------------- battle rules: claims

\* the last call was a call of the rule op
RuleCalled(op) == IF rule_call = None THEN FALSE ELSE rule_call.op = op

\* a character with an element other than PHYSICAL
Mage(character) == \E i \in 1..Len(character.elements) : character.elements[i] # PHYSICAL

\* C11: pay_cost takes min(cost, energy) from the energy of a mage actor and
\* nothing from that of another actor, then min(rest, base_mana) from the base
\* mana, then what is left from the actor's HP; the three parts add up to the
\* cost, the HP is touched only when energy and base mana together fall short
\* of the cost, and nothing else of the player changes
C11_PayCostDeductions ==
    RuleCalled("pay_cost") =>
        LET before == rule_call.before
            slot == rule_call.actor_idx + 1
            actor == before.chars[slot]
            usable == IF Mage(actor.character) THEN actor.cur_energy ELSE 0
            from_energy == actor.cur_energy - player1.chars[slot].cur_energy
            from_mana == before.base_mana - player1.base_mana
            from_hp == actor.cur_hp - player1.chars[slot].cur_hp
        IN  /\ from_energy = Min(rule_call.cost, usable)
            /\ from_mana = Min(rule_call.cost - from_energy, before.base_mana)
            /\ from_hp = rule_call.cost - from_energy - from_mana
            /\ from_energy + from_mana + from_hp = rule_call.cost
            /\ (from_hp # 0) = (usable + before.base_mana < rule_call.cost)
            /\ player1 = [before EXCEPT
                             !.base_mana = @ - from_mana,
                             !.chars[slot].cur_energy = @ - from_energy,
                             !.chars[slot].cur_hp = @ - from_hp]

\* C11: a cost of 12 was paid by a mage without energy over a base mana of 3:
\* the base mana is 0 and the mage has 9 HP less
C11_Witness ==
    /\ RuleCalled("pay_cost")
    /\ rule_call.cost = 12
    /\ rule_call.actor_idx = 0
    /\ rule_call.before.chars[1].cur_energy = 0
    /\ rule_call.before.base_mana = 3
    /\ player1.base_mana = 0
    /\ player1.chars[1].cur_hp = rule_call.before.chars[1].cur_hp - 9

\* C12: pay_cost returns False exactly when part of the cost was paid from the
\* actor's HP and that HP is at or below 0 afterwards, and the actor it killed
\* is then a dead character as every other: one whose HP is 0
C12_PayCostKillsOrSucceeds ==
    RuleCalled("pay_cost") =>
        LET actor == rule_call.before.chars[rule_call.actor_idx + 1]
            after == player1.chars[rule_call.actor_idx + 1]
        IN  /\ (rule_call.returned = FALSE)
                   = (after.cur_hp < actor.cur_hp /\ after.cur_hp <= 0)
            /\ (rule_call.returned = FALSE) => after.cur_hp = 0

\* C13: in every state every character of both sides has its HP between 0
\* and its health and its energy between 0 and its maximum energy
C13_CharacterRanges ==
    \A p \in {player1, player2} :
        \A i \in 1..Len(p.chars) :
            /\ 0 <= p.chars[i].cur_hp
            /\ p.chars[i].cur_hp <= p.chars[i].character.health
            /\ 0 <= p.chars[i].cur_energy
            /\ p.chars[i].cur_energy <= p.chars[i].character.energy

\* C14: take_damage on a mage hit by magic damage takes min(energy, amount)
\* from the energy and the rest from the HP; on a mage hit by physical damage
\* and on every other character it takes the whole amount from the HP and
\* leaves the energy alone; the HP stops at 0 and the overflow returned is what
\* the HP would have gone below 0, so that energy lost, HP lost and overflow
\* add up to the amount
C14_TakeDamage ==
    RuleCalled("take_damage") =>
        LET before == rule_call.before
            slot == rule_call.target_idx + 1
            target == before.chars[slot]
            after == player2.chars[slot]
            energy_lost == target.cur_energy - after.cur_energy
            hp_lost == target.cur_hp - after.cur_hp
            on_hp == rule_call.damage - energy_lost
        IN  /\ energy_lost = IF Mage(target.character) /\ rule_call.is_magic
                              THEN Min(target.cur_energy, rule_call.damage)
                              ELSE 0
            /\ after.cur_hp = Max(0, target.cur_hp - on_hp)
            /\ rule_call.returned = Max(0, on_hp - target.cur_hp)
            /\ energy_lost + hp_lost + rule_call.returned = rule_call.damage
            /\ player2 = [before EXCEPT !.chars[slot].cur_energy = @ - energy_lost,
                                         !.chars[slot].cur_hp = @ - hp_lost]

\* C14: a living mage took magic damage that used up its energy and its HP
\* and left an overflow
C14_Witness ==
    /\ RuleCalled("take_damage")
    /\ rule_call.is_magic
    /\ rule_call.before.chars[rule_call.target_idx + 1].cur_energy > 0
    /\ rule_call.before.chars[rule_call.target_idx + 1].cur_hp > 0
    /\ player2.chars[rule_call.target_idx + 1].cur_energy = 0
    /\ player2.chars[rule_call.target_idx + 1].cur_hp = 0
    /\ rule_call.returned > 0

\* the last call was a play_card that went through, on a character
CharacterWasHit ==
    IF RuleCalled("play_card")
    THEN rule_call.returned /\ rule_call.target \in {"t0", "t1"}
    ELSE FALSE

\* what take_damage makes of the target of the last play
LastHit ==
    LET card == rule_call.before[1].hand[rule_call.hand_index + 1]
        actor == rule_call.before[1].chars[rule_call.actor_index + 1]
    IN  take_damage(rule_call.before[2].chars[TargetIndex(rule_call.target) + 1],
                    final_dmg(card, actor.character), ~InList(PHYSICAL, card.elements))

\* C15: when a play brings an active character to 0 HP and the defender has a
\* living third character, that character takes the slot of the dead one and
\* the list goes from 3 to 2 entries; without a reserve the dead character
\* stays in its slot with exactly 0 HP and the list keeps its length; no call
\* makes a character list longer
C15_ReserveSteppingIn ==
    /\ CharacterWasHit =>
           LET defender == rule_call.before[2]
               slot == TargetIndex(rule_call.target) + 1
           IN  IF LastHit.cs.cur_hp > 0
               THEN Len(player2.chars) = Len(defender.chars)
               ELSE IF Len(defender.chars) = 3
               THEN /\ Len(player2.chars) = 2
                    /\ player2.chars[slot] = defender.chars[3]
                    /\ player2.chars[3 - slot] = defender.chars[3 - slot]
               ELSE /\ Len(player2.chars) = Len(defender.chars)
                    /\ player2.chars[slot].character = defender.chars[slot].character
                    /\ player2.chars[slot].cur_hp = 0
    /\ RuleCalled("play_card") =>
           /\ Len(player1.chars) <= Len(rule_call.before[1].chars)
           /\ Len(player2.chars) <= Len(rule_call.before[2].chars)

\* C15: the fire mage in reserve stands in the first slot after a play on the
\* character that stood there
C15_Witness ==
    /\ CharacterWasHit
    /\ rule_call.target = "t0"
    /\ Len(rule_call.before[2].chars) = 3
    /\ rule_call.before[2].chars[1].cur_hp > 0
    /\ Len(player2.chars) = 2
    /\ player2.chars[1] = rule_call.before[2].chars[3]

\* by how much the damage of the last play is above what the target had left
\* after its energy took its part
LastExcess ==
    LET card == rule_call.before[1].hand[rule_call.hand_index + 1]
        actor == rule_call.before[1].chars[rule_call.actor_index + 1]
        target == rule_call.before[2].chars[TargetIndex(rule_call.target) + 1]
        absorbed == target.cur_energy - LastHit.cs.cur_energy
    IN  final_dmg(card, actor.character) - absorbed - target.cur_hp

\* C16: a play on a character whose damage is above what the character has
\* left after its energy took its part lowers the base HP of the defender by
\* exactly the excess; a play within what is left changes no base HP; the
\* base HP of the attacker changes in neither case
C16_OverflowOntoBase ==
    CharacterWasHit =>
        /\ player2.base_hp = rule_call.before[2].base_hp
                                - (IF LastExcess > 0 THEN LastExcess ELSE 0)
        /\ player1.base_hp = rule_call.before[1].base_hp

\* C16: a play killed a living character and the base behind it lost HP
C16_Witness ==
    /\ CharacterWasHit
    /\ rule_call.before[2].chars[TargetIndex(rule_call.target) + 1].cur_hp > 0
    /\ LastExcess > 0
    /\ player2.base_hp = rule_call.before[2].base_hp - LastExcess

\* the last call was a play that went through, in a local or a network battle
CardWasPlayed ==
    IF RuleCalled("play_card") THEN rule_call.returned
    ELSE RuleCalled("execute_play_card")

\* C17: the damage of a play is max(1, card.cost), times 2 exactly when the
\* actor is a mage and has an element of the card, times 1 in every other
\* case, that of an actor who is no mage included
C17_DamageOfAPlay ==
    CardWasPlayed =>
        LET card == rule_call.before[1].hand[rule_call.hand_index + 1]
            actor == rule_call.before[1].chars[rule_call.actor_index + 1].character
            shared == \E i \in 1..Len(card.elements), j \in 1..Len(actor.elements) :
                          card.elements[i] = actor.elements[j]
        IN  rule_call.logged
              = (IF card.cost > 1 THEN card.cost ELSE 1)
                * (IF Mage(actor) /\ shared THEN 2 ELSE 1)

\* C18: get_valid_targets returns exactly the living taunting characters of
\* the opponent's two front slots when there is one, and otherwise every
\* living character of the front slots and the base; so never a character
\* with 0 HP, never the reserve, and the base exactly when no living front
\* character taunts
C18_ValidTargets ==
    RuleCalled("get_valid_targets") =>
        LET chars == rule_call.before.chars
            front == {i \in {0, 1} : i < Len(chars)}
            alive == {i \in front : chars[i + 1].cur_hp > 0}
            taunting == {i \in alive : chars[i + 1].taunt}
            name(i) == IF i = 0 THEN "t0" ELSE "t1"
            returned == {rule_call.returned[k] : k \in 1..Len(rule_call.returned)}
        IN  /\ Len(rule_call.returned) = Cardinality(returned)
            /\ returned = IF taunting # {}
                          THEN {name(i) : i \in taunting}
                          ELSE {name(i) : i \in alive} \cup {"b"}
            /\ returned \subseteq {name(i) : i \in alive} \cup {"b"}
            /\ ("b" \in returned) = (taunting = {})

\* C18: the knight taunts beside a living dark mage, and the knight is the
\* only target returned
C18_Witness ==
    /\ RuleCalled("get_valid_targets")
    /\ rule_call.before.chars[1].cur_hp > 0
    /\ ~rule_call.before.chars[1].taunt
    /\ rule_call.before.chars[2].cur_hp > 0
    /\ rule_call.before.chars[2].taunt
    /\ rule_call.returned = <<"t1">>

\* C19: a play that goes through is a play on a target that get_valid_targets
\* returns for the opponent as it stands before the play; a character with 0
\* HP is the target of no such play
C19_PlaysOnValidTargets ==
    (IF RuleCalled("play_card") THEN rule_call.returned ELSE FALSE) =>
        /\ InList(rule_call.target, get_valid_targets(rule_call.before[2]))
        /\ rule_call.target \in {"t0", "t1"} =>
               rule_call.before[2].chars[TargetIndex(rule_call.target) + 1].cur_hp > 0

\* the request of the last play_card fails a test: a selection is missing, or
\* the actor cannot attack, or the actor is no mage and the card not
\* physical, or energy and base mana do not cover the cost
RequestFails ==
    \/ rule_call.hand_index < 0
    \/ rule_call.actor_index < 0
    \/ rule_call.target = NoTarget
    \/ LET card == rule_call.before[1].hand[rule_call.hand_index + 1]
           actor == rule_call.before[1].chars[rule_call.actor_index + 1]
           physical == \E i \in 1..Len(card.elements) : card.elements[i] = PHYSICAL
           cost == IF physical THEN 0 ELSE card.cost
           energy == IF Mage(actor.character) THEN actor.cur_energy ELSE 0
       IN  \/ actor.confused
           \/ actor.cur_hp <= 0
           \/ ~Mage(actor.character) /\ ~physical
           \/ energy + rule_call.before[1].base_mana < cost

HandCards ==
    {all_cards[i] : i \in 1..Len(all_cards)}
      \cup {AbilityCard(all_characters[i]) : i \in 1..Len(all_characters)}

\* the elements of a card, as a set
ElementSet(card) == {card.elements[i] : i \in 1..Len(card.elements)}

\* C21: a play by an actor who is no mage goes through only with a card whose
\* element set is exactly {PHYSICAL}, a card with any other element is turned
\* down for such an actor, and no card is turned down for a mage because of
\* its elements: a mage who can attack, with a full selection and with energy
\* and base mana for the cost, plays whatever card was chosen. Of the cards a
\* hand can hold, those with PHYSICAL among their elements are the cards with
\* PHYSICAL as their only element.
C21_NonMagePlaysPhysicalOnly ==
    /\ \A card \in HandCards : (PHYSICAL \in ElementSet(card)) = (ElementSet(card) = {PHYSICAL})
    /\ (IF RuleCalled("play_card")
        THEN rule_call.hand_index >= 0 /\ rule_call.actor_index >= 0
        ELSE FALSE) =>
          LET card == rule_call.before[1].hand[rule_call.hand_index + 1]
              actor == rule_call.before[1].chars[rule_call.actor_index + 1]
              cost == IF PHYSICAL \in ElementSet(card) THEN 0 ELSE card.cost
          IN  /\ card \in HandCards
              /\ (~Mage(actor.character) /\ rule_call.returned)
                     => ElementSet(card) = {PHYSICAL}
              /\ (~Mage(actor.character) /\ ElementSet(card) # {PHYSICAL})
                     => /\ ~rule_call.returned
                        /\ player1 = rule_call.before[1]
                        /\ player2 = rule_call.before[2]
              /\ (/\ Mage(actor.character)
                  /\ rule_call.target # NoTarget
                  /\ ~actor.confused
                  /\ actor.cur_hp > 0
                  /\ actor.cur_energy + rule_call.before[1].base_mana >= cost)
                     => rule_call.returned

\* C21: the warrior, alive and with base mana above the card's cost, asked
\* for the water and dark card and was turned down, the card still in hand
C21_Witness ==
    /\ RuleCalled("play_card")
    /\ rule_call.hand_index = 0
    /\ rule_call.actor_index = 1
    /\ rule_call.target = "b"
    /\ ~Mage(rule_call.before[1].chars[2].character)
    /\ rule_call.before[1].chars[2].cur_hp > 0
    /\ rule_call.before[1].base_mana >= rule_call.before[1].hand[1].cost
    /\ ElementSet(rule_call.before[1].hand[1]) = {WATER, DARK}
    /\ ~rule_call.returned
    /\ player1.hand = rule_call.before[1].hand

\* the side whose turn the last start_turn started, before and after the call
TurnStarter == IF rule_call.side = 1 THEN player1 ELSE player2

TurnStarterBefore == rule_call.before[rule_call.side]

\* C22: start_turn sets base_mana to min(30, base_mana + 5 +
\* extra_mana_per_turn) and the energy of every mage character to
\* min(character.energy, cur_energy + 5); the energy of every other
\* character, every HP, the list of characters and base_hp stay as they were,
\* and the other side is not touched. In every state the base mana of both
\* sides is in 0..30.
C22_StartTurnRegeneration ==
    /\ player1.base_mana \in 0..30
    /\ player2.base_mana \in 0..30
    /\ RuleCalled("start_turn") =>
          LET before == TurnStarterBefore
              after == TurnStarter
              sum == before.base_mana + 5 + before.extra_mana_per_turn
          IN  /\ after.base_mana = (IF sum < 30 THEN sum ELSE 30)
              /\ after.base_hp = before.base_hp
              /\ after.extra_mana_per_turn = before.extra_mana_per_turn
              /\ Len(after.chars) = Len(before.chars)
              /\ \A i \in 1..Len(before.chars) :
                    LET b == before.chars[i]
                        a == after.chars[i]
                        raised == b.cur_energy + 5
                    IN  /\ a.character = b.character
                        /\ a.cur_hp = b.cur_hp
                        /\ a.taunt = b.taunt
                        /\ a.confused = b.confused
                        /\ a.cur_energy =
                              (IF Mage(b.character)
                               THEN (IF raised < b.character.energy
                                     THEN raised ELSE b.character.energy)
                               ELSE b.cur_energy)
              /\ (IF rule_call.side = 1 THEN player2 ELSE player1)
                    = rule_call.before[3 - rule_call.side]

\* C22: a turn started with 30 base mana, a dark mage at 10 of 18 energy and
\* a knight: the base mana stays at the cap, the mage has 15 energy, the
\* knight none
C22_Witness ==
    /\ RuleCalled("start_turn")
    /\ rule_call.side = 2
    /\ rule_call.before[2].base_mana = 30
    /\ player2.base_mana = 30
    /\ rule_call.before[2].chars[1].cur_energy = 10
    /\ player2.chars[1].cur_energy = 15
    /\ ~Mage(player2.chars[2].character)
    /\ player2.chars[2].cur_energy = 0

\* the characters of a side that start_turn makes an ability card for
WithAbilityCard(p) ==
    {i \in 1..Len(p.chars) : p.chars[i].character.is_active_ability /\ p.chars[i].cur_hp > 0}

\* C23 as stated: start_turn moves the top card of a pile that is not empty
\* into the hand, which grows by exactly one card while the pile shrinks by
\* exactly one, and leaves hand and pile as they were when the pile is empty
C23_StartTurnMovesOneCard ==
    RuleCalled("start_turn") =>
        LET before == TurnStarterBefore
            after == TurnStarter
        IN  IF before.deck # <<>>
            THEN /\ Len(after.hand) = Len(before.hand) + 1
                 /\ Len(after.deck) = Len(before.deck) - 1
            ELSE /\ after.hand = before.hand
                 /\ after.deck = before.deck

\* C23, amended: start_turn first appends to the hand one ability card for
\* every character of the player, reserve included, that is alive and has an
\* active ability, in list order, each with the id "ability_" + character id,
\* cost 0 and the elements of a mage or PHYSICAL for another character; then
\* it moves the top card of the pile to the end of the hand when the pile is
\* not empty, so that the pile shrinks by exactly one, and leaves the pile as
\* it was when it is empty. The cards already in the hand keep their places
\* and the discard pile is unchanged.
C23_StartTurnAbilityCardsAndDraw ==
    RuleCalled("start_turn") =>
        LET before == TurnStarterBefore
            after == TurnStarter
            made == Cardinality(WithAbilityCard(before))
            drawn == IF before.deck # <<>> THEN 1 ELSE 0
            old == Len(before.hand)
        IN  /\ Len(after.hand) = old + made + drawn
            /\ SubSeq(after.hand, 1, old) = before.hand
            /\ \A k \in 1..made :
                  \E i \in WithAbilityCard(before) :
                      /\ Cardinality({j \in WithAbilityCard(before) : j <= i}) = k
                      /\ after.hand[old + k].id
                            = S(<<"a", "b", "i", "l", "i", "t", "y", "_">>)
                                \o before.chars[i].character.id
                      /\ after.hand[old + k].cost = 0
                      /\ after.hand[old + k].elements
                            = (IF Mage(before.chars[i].character)
                               THEN before.chars[i].character.elements
                               ELSE <<PHYSICAL>>)
            /\ IF before.deck # <<>>
               THEN /\ after.hand[old + made + 1] = before.deck[1]
                    /\ after.deck = SubSeq(before.deck, 2, Len(before.deck))
               ELSE after.deck = before.deck
            /\ after.discard = before.discard

\* C23: a turn started with two cards in hand, two living characters and a
\* pile of two cards: the hand has five cards, the last of them the card that
\* was on top of the pile, and the pile has one card
C23_Witness ==
    /\ RuleCalled("start_turn")
    /\ rule_call.side = 1
    /\ Len(rule_call.before[1].hand) = 2
    /\ Len(rule_call.before[1].deck) = 2
    /\ Cardinality(WithAbilityCard(rule_call.before[1])) = 2
    /\ Len(player1.hand) = 5
    /\ player1.hand[5] = rule_call.before[1].deck[1]
    /\ Len(player1.deck) = 1

\* while no card was played in the first turn of a running battle, player1
\* is the side _init_battle builds after one start_turn: the first mover's
\* turn was started
FirstTurnStarted ==
    (battle_started /\ turn_number = 1 /\ plays = 0) =>
        \E shuffled \in Shuffles(game_decks[1].cards) :
            player1 = start_turn(InitialPlayer(game_decks[1], shuffled))

\* a step that passes the turn starts the turn of the player it passes to,
\* once, and leaves the other side alone; no other step starts a turn
TurnsStartOnce ==
    IF turn_number' # turn_number
    THEN /\ (IF current_turn' = 0 THEN player1' ELSE player2')
               = start_turn(IF current_turn' = 0 THEN player1 ELSE player2)
         /\ (IF current_turn' = 0 THEN player2' ELSE player1')
               = (IF current_turn' = 0 THEN player2 ELSE player1)
    ELSE current_turn' = current_turn

\* C24: in every turn of a battle, the first turn of the first mover
\* included, start_turn has run exactly once for the player to move before
\* that player can play a card: in the first turn player1's turn is started,
\* as a network battle starts the host's, and every later turn is started by
\* the step that passes the turn
C24_StartTurnBeforeEveryPlay == [][FirstTurnStarted' /\ TurnsStartOnce]_vars

\* a deck that has cards and at least one character
PlayableDeck(d) == Len(d.cards) > 0 /\ Len(d.characters) >= 1

\* C25: a battle is in progress only on two decks that each have cards and
\* at least one character; on a deck list whose first or second deck has no
\* cards or no characters the battle does not start
C25_BattleNeedsPlayableDecks ==
    battle_started =>
        /\ Len(game_decks) >= 2
        /\ PlayableDeck(game_decks[1])
        /\ PlayableDeck(game_decks[2])

\* the side p as a battle is initialised on the deck d: base at 50 HP and 30
\* mana, the first three characters of the deck at full HP, no discards, and,
\* for a deck of three cards or more, three of its cards in hand and the
\* others on the pile
FreshSide(p, d) ==
    /\ p.base_hp = 50
    /\ p.base_mana = 30
    /\ p.discard = <<>>
    /\ Len(p.chars) = (IF Len(d.characters) < 3 THEN Len(d.characters) ELSE 3)
    /\ \A i \in 1..Len(p.chars) :
          /\ p.chars[i].character = d.characters[i]
          /\ p.chars[i].cur_hp = d.characters[i].health
    /\ Len(d.cards) >= 3 =>
          /\ Len(p.hand) = 3
          /\ Len(p.deck) = Len(d.cards) - 3
    /\ \A c \in {d.cards[i] : i \in 1..Len(d.cards)} :
          Cardinality({i \in 1..Len(p.hand) : p.hand[i] = c})
            + Cardinality({i \in 1..Len(p.deck) : p.deck[i] = c})
            = Cardinality({i \in 1..Len(d.cards) : d.cards[i] = c})

MaxEditCards == 2

\* the characters and cards the editing calls are made with: a fighter; a
\* rare card and a FUNNY card
EditCharacters ==
    <<find_character_by_id(S(<<"k", "n", "i", "g", "h", "t">>))>>

EditCards ==
    <<find_card_by_id(S(<<"T", "e", "a", "r", "A", "l", "l">>)),
      find_card_by_id(S(<<"W", "o", "r", "d", "l", "e">>))>>

\* a standard deck with a FUNNY card
FunnyStandardCode ==
    encode_deck_code(S(<<"X", ";", "1", ";", ";", "W", "o", "r", "d", "l", "e", ";",
                         "2", "0", ";">>))

\* four characters, and two cards under a limit of 1
CrowdedCode ==
    encode_deck_code(S(<<"X", ";", "2", ";", "k", "n", "i", "g", "h", "t", ",",
                         "k", "n", "i", "g", "h", "t", ",", "k", "n", "i", "g", "h", "t", ",",
                         "k", "n", "i", "g", "h", "t", ";", "T", "e", "a", "r", "A", "l", "l",
                         ",", "T", "e", "a", "r", "A", "l", "l", ";", "1", ";">>))

\* a casual deck of one card with a limit of 2
SmallLimitCode ==
    encode_deck_code(S(<<"X", ";", "2", ";", ";", "T", "e", "a", "r", "A", "l", "l", ";",
                         "2", ";">>))

\* a code with a wrong checksum
BrokenCode ==
    b64encode(Utf8Encode(S(<<"X", ";", "1", ";", ";", ";", "2", "0", ";", "|">>)
                           \o WrongChecksum))

\* the deck codes import_from_code is called with
EditCodes == {FunnyStandardCode, CrowdedCode, SmallLimitCode, BrokenCode}

\* -------------------------------------------------- deck editing: actions

\* a deck as the constructor leaves it, no call made yet
InitDeck ==
    /\ \E deck_type \in {STANDARD, CASUAL} : built_deck = Deck(S(<<"A">>), deck_type)
    /\ rule_call = None
    /\ import_result = None
    /\ deck_code = <<>>
    /\ exported_deck = None
    /\ decode_result = None
    /\ game_decks = <<>>
    /\ player1 = None
    /\ player2 = None
    /\ current_turn = 0
    /\ turn_number = 1
    /\ selected_hand_index = -1
    /\ selected_actor_index = -1
    /\ selected_target = NoTarget
    /\ battle_started = FALSE
    /\ announced_winner = 0
    /\ end_turns = 0
    /\ plays = 0
    /\ ignored_events = FALSE
    /\ NoNetwork

\* built_deck.add_card(card)
EditAddCard ==
    \E i \in 1..Len(EditCards) :
        /\ Len(add_card(built_deck, EditCards[i]).deck.cards) <= MaxEditCards
        /\ built_deck' = add_card(built_deck, EditCards[i]).deck
        /\ rule_call' = [op |-> "add_card", arg |-> EditCards[i], before |-> built_deck,
                         returned |-> add_card(built_deck, EditCards[i]).ok]
        /\ UNCHANGED <<deck_code, exported_deck, decode_result, import_result,
                       battle_vars, net_vars>>

\* built_deck.remove_card(card.name)
EditRemoveCard ==
    \E i \in 1..Len(EditCards) :
        /\ built_deck' = remove_card(built_deck, EditCards[i].id).deck
        /\ rule_call' = [op |-> "remove_card", arg |-> EditCards[i].id,
                         before |-> built_deck,
                         returned |-> remove_card(built_deck, EditCards[i].id).ok]
        /\ UNCHANGED <<deck_code, exported_deck, decode_result, import_result,
                       battle_vars, net_vars>>

\* built_deck.add_character(character)
EditAddCharacter ==
    \E i \in 1..Len(EditCharacters) :
        /\ built_deck' = add_character(built_deck, EditCharacters[i]).deck
        /\ rule_call' = [op |-> "add_character", arg |-> EditCharacters[i],
                         before |-> built_deck,
                         returned |-> add_character(built_deck, EditCharacters[i]).ok]
        /\ UNCHANGED <<deck_code, exported_deck, decode_result, import_result,
                       battle_vars, net_vars>>

\* built_deck.remove_character(character.name)
EditRemoveCharacter ==
    \E i \in 1..Len(EditCharacters) :
        /\ built_deck' = remove_character(built_deck, EditCharacters[i].id).deck
        /\ rule_call' = [op |-> "remove_character", arg |-> EditCharacters[i].id,
                         before |-> built_deck,
                         returned |-> remove_character(built_deck, EditCharacters[i].id).ok]
        /\ UNCHANGED <<deck_code, exported_deck, decode_result, import_result,
                       battle_vars, net_vars>>

\* built_deck.import_from_code(code, all_cards, all_characters), once
EditImport ==
    \E code \in EditCodes :
        /\ import_result = None
        /\ built_deck' = import_from_code(built_deck, code).deck
        /\ import_result' = [code |-> code]
        /\ rule_call' = [op |-> "import_from_code", arg |-> code, before |-> built_deck,
                         returned |-> import_from_code(built_deck, code).ok]
        /\ UNCHANGED <<deck_code, exported_deck, decode_result, battle_vars, net_vars>>

NextDeck ==
    \/ EditAddCard
    \/ EditRemoveCard
    \/ EditAddCharacter
    \/ EditRemoveCharacter
    \/ EditImport

SpecDeck == InitDeck /\ [][NextDeck]_vars

\* --------------------------------------------------- deck editing: claims

\* the last call was add_card with a FUNNY card
FunnyCardAdded ==
    IF RuleCalled("add_card") THEN rule_call.arg.rarity = FUNNY ELSE FALSE

\* C27 as stated: add_card of a FUNNY card returns False on a standard deck
\* and leaves the deck, its cards and its code, as it was; on a casual deck
\* it returns True and appends the card
C27_FunnyCardsByDeckType ==
    FunnyCardAdded =>
        IF rule_call.before.deck_type = STANDARD
        THEN /\ ~rule_call.returned
             /\ built_deck = rule_call.before
        ELSE /\ rule_call.returned
             /\ built_deck.cards = Append(rule_call.before.cards, rule_call.arg)

\* C27, amended: add_card of a FUNNY card returns False on a standard deck
\* and leaves the deck, its cards and its code, as it was; on a casual deck
\* with fewer than max_card_limit cards it returns True and appends the card;
\* on a casual deck that holds max_card_limit cards or more it returns False
\* and leaves the deck as it was
C27_FunnyCardsByDeckTypeAndLimit ==
    FunnyCardAdded =>
        IF rule_call.before.deck_type = STANDARD
        THEN /\ ~rule_call.returned
             /\ built_deck = rule_call.before
        ELSE IF Len(rule_call.before.cards) < rule_call.before.max_card_limit
        THEN /\ rule_call.before.deck_type = CASUAL
             /\ rule_call.returned
             /\ built_deck.cards = Append(rule_call.before.cards, rule_call.arg)
        ELSE /\ ~rule_call.returned
             /\ built_deck = rule_call.before

\* C27: a casual deck of one card took a FUNNY card as its second
C27_Witness ==
    /\ FunnyCardAdded
    /\ rule_call.before.deck_type = CASUAL
    /\ Len(rule_call.before.cards) = 1
    /\ rule_call.returned
    /\ Len(built_deck.cards) = 2
    /\ built_deck.cards[2].rarity = FUNNY
    /\ built_deck.deck_code # rule_call.before.deck_code

\* C28: in every state reached through the constructor, add_card,
\* remove_card, add_character, remove_character and import_from_code, a
\* standard deck holds no FUNNY card
C28_StandardDeckHoldsNoFunnyCard ==
    built_deck.deck_type = STANDARD =>
        \A i \in 1..Len(built_deck.cards) : built_deck.cards[i].rarity # FUNNY

\* C29: in every state reached through the constructor, add_card,
\* remove_card, add_character, remove_character and import_from_code the deck
\* holds at most max_card_limit cards and at most 3 characters; add_card on a
\* deck at the limit and add_character on a deck of 3 characters return False
\* and change nothing
C29_DeckWithinLimits ==
    /\ Len(built_deck.cards) <= built_deck.max_card_limit
    /\ Len(built_deck.characters) <= 3
    /\ (IF RuleCalled("add_card")
        THEN Len(rule_call.before.cards) = rule_call.before.max_card_limit
        ELSE FALSE) =>
          (~rule_call.returned /\ built_deck = rule_call.before)
    /\ (IF RuleCalled("add_character")
        THEN Len(rule_call.before.characters) = 3
        ELSE FALSE) =>
          (~rule_call.returned /\ built_deck = rule_call.before)

\* the deck code of the deck as it stands: name, type, character ids, card
\* ids and card limit, each followed by a semicolon, encoded
CodeOfFields(d) ==
    encode_deck_code(
        d.name \o S(<<";">>)
        \o IntToText(d.deck_type) \o S(<<";">>)
        \o Join([i \in 1..Len(d.characters) |-> d.characters[i].id], S(<<",">>))
        \o S(<<";">>)
        \o Join([i \in 1..Len(d.cards) |-> d.cards[i].id], S(<<",">>)) \o S(<<";">>)
        \o IntToText(d.max_card_limit) \o S(<<";">>))

\* C30: after the constructor and after every sequence of add_card,
\* remove_card, add_character and remove_character calls, accepted or turned
\* down, deck_code is the encoding of the deck's name, type, character ids,
\* card ids and max_card_limit as they stand
C30_DeckCodeFollowsEdits ==
    import_result = None => built_deck.deck_code = CodeOfFields(built_deck)

\* C30: a card was removed from a deck that was only edited, and the code is
\* the code of the cards that are left, not the code before the call
C30_Witness ==
    /\ import_result = None
    /\ RuleCalled("remove_card")
    /\ rule_call.returned
    /\ Len(built_deck.cards) = Len(rule_call.before.cards) - 1
    /\ Len(built_deck.characters) = 1
    /\ built_deck.deck_code = CodeOfFields(built_deck)
    /\ built_deck.deck_code # rule_call.before.deck_code

\* ---------------------------------------------- LAN session: its lifetime

\* two instances open the lobby; the second holds deck A, the first deck B or
\* no deck at all (Game.__init__ leaves game.decks empty)
SessionDeckLists == {<<>>, <<DeckB>>}

InitSession ==
    /\ \E decks \in SessionDeckLists :
            lobby = <<NewLobbyScene(decks), NewLobbyScene(<<DeckA>>)>>
    /\ wire = <<<<>>, <<>>>>
    /\ recv_buffer = <<<<>>, <<>>>>
    /\ sent = <<<<>>, <<>>>>
    /\ applied = <<<<>>, <<>>>>
    /\ short_reads = 0
    /\ clicks = 0
    /\ game_decks = <<>>
    /\ player1 = None
    /\ player2 = None
    /\ current_turn = 0
    /\ turn_number = 1
    /\ selected_hand_index = -1
    /\ selected_actor_index = -1
    /\ selected_target = NoTarget
    /\ battle_started = FALSE
    /\ announced_winner = 0
    /\ end_turns = 0
    /\ plays = 0
    /\ ignored_events = FALSE
    /\ built_deck = None
    /\ deck_code = <<>>
    /\ exported_deck = None
    /\ decode_result = None
    /\ import_result = None
    /\ rule_call = None

\* disconnect, the callback of the back button: the flag is cleared, the
\* socket closed if there is one, and the game shows the main menu
disconnect(sc) ==
    [sc EXCEPT !.net_running = FALSE,
               !.closed = sc.conn_socket,
               !.game_state = "MAIN_MENU"]

\* handle_event, a click on the back button
ClickBack ==
    \E s \in Sides :
        /\ InScene(s)
        /\ lobby' = [lobby EXCEPT ![s] = disconnect(lobby[s])]
        /\ UNCHANGED <<wire, recv_buffer, sent, applied, short_reads, clicks,
                       battle_vars, codec_vars, rule_vars>>

\* _connect_thread of the joining instance, connect refused because nobody
\* listens: the except branch logs the failure and sets stage 1
ConnectFails ==
    /\ lobby[Client].connect_pc = "connect"
    /\ lobby[Host].connect_pc # "connect"
    /\ lobby' = [lobby EXCEPT ![Client].stage = 1, ![Client].connect_pc = "idle"]
    /\ UNCHANGED <<wire, recv_buffer, sent, applied, short_reads, clicks,
                   battle_vars, codec_vars, rule_vars>>

\* the peer's end of the connection is shut: the peer closed its socket and
\* none of its threads still sits in a call on it
PeerGone(r) == lobby[Peer(r)].closed /\ lobby[Peer(r)].recv_pc # "recv"

\* _recv_thread, recv returns the empty string at the end of the stream: the
\* loop is left and the flag cleared
RecvEndOfStream ==
    \E r \in Sides :
        /\ lobby[r].recv_pc = "recv"
        /\ lobby[r].net_running
        /\ wire[r] = <<>>
        /\ PeerGone(r)
        /\ lobby' = [lobby EXCEPT ![r].net_running = FALSE, ![r].recv_pc = "done"]
        /\ UNCHANGED <<wire, recv_buffer, sent, applied, short_reads, clicks,
                       battle_vars, codec_vars, rule_vars>>

\* _recv_thread in recv while disconnect closes the socket.  What the call
\* does then is the platform's choice: it fails at once (the except branch
\* leaves the loop), or it goes on waiting and returns what the peer sends
\* next, or the end of the stream; the lines of that chunk go on the queue
\* before the loop tests net_running again
RecvOnClosedSocket ==
    \E r \in Sides :
        /\ lobby[r].recv_pc = "recv"
        /\ lobby[r].closed
        /\ \/ /\ lobby' = [lobby EXCEPT ![r].recv_pc = "done"]
              /\ UNCHANGED <<wire, recv_buffer>>
           \/ /\ wire[r] # <<>>
              /\ wire' = [wire EXCEPT ![r] = <<>>]
              /\ LET data == Utf8Decode(wire[r]) IN
                    IF data.ok
                    THEN /\ lobby' = [lobby EXCEPT
                                ![r].message_queue =
                                    @ \o CompleteLines(recv_buffer[r] \o data.text),
                                ![r].recv_pc = "done"]
                         /\ recv_buffer' =
                                [recv_buffer EXCEPT ![r] = Remainder(@ \o data.text)]
                    ELSE /\ lobby' = [lobby EXCEPT ![r].recv_pc = "done"]
                         /\ recv_buffer' = [recv_buffer EXCEPT ![r] = <<>>]
        /\ UNCHANGED <<sent, applied, short_reads, clicks, battle_vars, codec_vars, rule_vars>>

\* the wait of _connect_thread for the peer's name, either way it goes on
Handshake == HandshakeLine \/ HandshakeTimeout

NextSession ==
    \/ SelectMode
    \/ StartConnection
    \/ HostAccept
    \/ ClientConnect
    \/ ConnectFails
    \/ HandshakeLine
    \/ HandshakeTimeout
    \/ RecvThread
    \/ RecvEndOfStream
    \/ RecvOnClosedSocket
    \/ ProcessMessages
    \/ ClickStartBattle
    \/ ClickBack

\* the states in which a step of the wait of _connect_thread, a round of
\* _recv_thread and a call of process_messages with something to handle can
\* be taken: the guards of Handshake, RecvThread and ProcessMessages
HandshakeEnabled == \E s \in Sides : lobby[s].connect_pc = "handshake"

RecvThreadEnabled ==
    \E r \in Sides :
        lobby[r].recv_pc = "recv" /\ lobby[r].net_running /\ wire[r] # <<>>

ProcessMessagesEnabled ==
    \E s \in Sides :
        InScene(s) /\ lobby[s].stage >= 3 /\ lobby[s].message_queue # <<>>

\* the threads run and Game.run calls update on every frame; the clicks are
\* the player's to make or not.  Weak fairness of the wait, of the receive
\* loop and of process_messages is written out, WF_v(A) being
\* []<>~ENABLED <<A>>_v \/ []<><<A>>_v, with the guard of the action for
\* its ENABLED
SpecSession ==
    /\ InitSession
    /\ [][NextSession]_vars
    /\ WF_vars(RecvEndOfStream)
    /\ ([]<>(~HandshakeEnabled) \/ []<><<Handshake>>_vars)
    /\ ([]<>(~RecvThreadEnabled) \/ []<><<RecvThread>>_vars)
    /\ ([]<>(~ProcessMessagesEnabled) \/ []<><<ProcessMessages>>_vars)

\* --------------------------------------------------- LAN session: claims

\* opponent_name as __init__ leaves it
FallbackOpponentName == <<23545, 25163>>

\* a line of the battle protocol: DECK, STARTBATTLE, PLAY or ENDTURN
IsGameplayLine(line) ==
    \/ StartsWith(line, DeckPrefix)
    \/ StartsWith(line, StartBattleLine)
    \/ StartsWith(line, PlayPrefix)
    \/ line = EndTurnLine

\* the step of instance s that ends the wait of _connect_thread
EndsHandshake(s) ==
    /\ lobby[s].connect_pc = "handshake"
    /\ lobby'[s].connect_pc = "done"

\* before stage 3 every line instance s took off its queue is a NAME line
NoGameplayBeforeConnected(s) ==
    lobby[s].stage < 3 =>
        \A i \in 1..Len(applied[s]) : StartsWith(applied[s][i], NamePrefix)

\* the end of the wait records the name of the NAME line it took, or keeps
\* the fallback name when the queue held nothing
HandshakeRecordsName(s) ==
    EndsHandshake(s) =>
        /\ lobby'[s].stage = 3
        /\ lobby'[s].opponent_name =
              IF lobby[s].message_queue = <<>>
              THEN FallbackOpponentName
              ELSE Split1(Head(lobby[s].message_queue), Ord(";"))[2]
        /\ lobby[s].message_queue # <<>> =>
              StartsWith(Head(lobby[s].message_queue), NamePrefix)

\* C31: once accept / connect has returned, _connect_thread reaches stage 3:
\* with the peer's name when its NAME line was on the queue, with the fallback
\* name when the wait ran out on an empty queue; and until then no DECK,
\* STARTBATTLE, PLAY or ENDTURN line has been taken off the queue
C31_HandshakeReachesConnectedStage ==
    /\ [][\A s \in Sides : NoGameplayBeforeConnected(s)' /\ HandshakeRecordsName(s)]_vars
    /\ \A s \in Sides :
          (lobby[s].connect_pc = "handshake") ~>
              (lobby[s].connect_pc = "done" /\ lobby[s].stage >= 3)

\* C31: the joining instance is connected under the fallback name, its wait
\* having run out, and the host under the name its peer sent; the host has
\* not handled a battle line yet
C31_Witness ==
    /\ lobby[Client].stage = 3
    /\ lobby[Client].opponent_name = FallbackOpponentName
    /\ applied[Client] = <<>>
    /\ lobby[Host].stage = 3
    /\ lobby[Host].opponent_name = player_name
    /\ applied[Host] = <<NamePrefix \o player_name>>

\* the receive task of instance s puts nothing on the queue in this step
EnqueuesNothing(s) == Len(lobby'[s].message_queue) <= Len(lobby[s].message_queue)

\* C32: once disconnect has closed the socket of an instance, its receive task
\* puts no further line on the queue; and the read that meets the end of the
\* stream after the remote side closed puts nothing on the queue either and
\* leaves the task returned, the flag cleared
C32_ReceiveTaskEndsWithTheSocket ==
    [][\A s \in Sides :
          /\ lobby[s].closed => EnqueuesNothing(s)
          /\ (lobby[s].recv_pc = "recv" /\ wire[s] = <<>> /\ PeerGone(s)
                /\ lobby'[s].recv_pc # "recv") =>
                (EnqueuesNothing(s) /\ ~lobby'[s].net_running)]_vars

\* the connection of instance s is lost: its receive task has returned, on
\* the end of the stream or on a read error, and not because s disconnected
ConnectionLost(s) ==
    /\ lobby[s].recv_pc = "done"
    /\ ~lobby[s].closed

\* nothing of the session is left for instance s to do by itself: the
\* connect thread is over and the queue is empty
SessionAtRest(s) ==
    /\ lobby[s].connect_pc \in {"idle", "done"}
    /\ lobby[s].message_queue = <<>>

\* C33: an instance that has lost its connection and has nothing left to
\* handle is no longer shown the connected or the battle stage; and a
\* connection attempt that failed has left stage 2
C33_LostConnectionEndsSession ==
    \A s \in Sides :
        /\ (InScene(s) /\ ConnectionLost(s) /\ SessionAtRest(s)) => lobby[s].stage < 3
        /\ (lobby[s].connect_pc = "idle") => lobby[s].stage < 2

\* ------------------------------------------ LAN lobby: the lines received

\* the two instances together are sent at most MaxForeignLines lines
MaxForeignLines == 2

\* lines a peer can send, whatever program it runs: _recv_thread puts every
\* non-empty line it is sent on the queue
EmojiLine == EmojiPrefix \o <<128546>>

EmptyEmojiLine == EmojiPrefix

UnknownLine == S(<<"H", "E", "L", "L", "O">>)

EndTurnWithBlank == EndTurnLine \o S(<<" ">>)

PeerNameLine == NamePrefix \o S(<<"B", "o", "b">>)

PeerDeckLine == DeckPrefix \o S(<<"B", ";", "x">>)

PeerPlayLine == PlayPrefix \o S(<<"T", "e", "a", "r", "A", "l", "l", ";", "0", ";", "b">>)

ShortPlayLine == PlayPrefix \o S(<<"T", "e", "a", "r", "A", "l", "l", ";", "0">>)

BadActorPlayLine == PlayPrefix \o S(<<"T", "e", "a", "r", "A", "l", "l", ";", "x", ";", "b">>)

AbilityLine == S(<<"A", "B", "I", "L", "I", "T", "Y", ";", "k", ";", "b">>)

StatusLine == S(<<"S", "T", "A", "T", "U", "S", ";", "o", "k">>)

\* the lines that match none of the prefixes handle_message knows
UnknownLines == {UnknownLine, EndTurnWithBlank}

\* the EMOJI lines
EmojiLines == {EmojiLine, EmptyEmojiLine}

ForeignLines ==
    UnknownLines \cup EmojiLines
        \cup {PeerNameLine, PeerDeckLine, PeerPlayLine, ShortPlayLine, BadActorPlayLine,
              AbilityLine, StatusLine, StartBattleLine, EndTurnLine}

\* the scene of instance s as _connect_thread leaves it: connected, stage 3,
\* the host to move first
ConnectedScene(s, decks) ==
    [NewLobbyScene(decks) EXCEPT
        !.mode = IF s = Host THEN "host" ELSE "client",
        !.stage = 3,
        !.conn_socket = TRUE,
        !.net_running = TRUE,
        !.connect_pc = "done",
        !.recv_pc = "recv",
        !.my_turn = (s = Host)]

\* two connected instances, each with a peer that may send any line
InitMessages ==
    /\ lobby = <<ConnectedScene(Host, <<DeckB>>), ConnectedScene(Client, <<DeckA>>)>>
    /\ wire = <<<<>>, <<>>>>
    /\ recv_buffer = <<<<>>, <<>>>>
    /\ sent = <<<<>>, <<>>>>
    /\ applied = <<<<>>, <<>>>>
    /\ short_reads = 0
    /\ clicks = 0
    /\ game_decks = <<>>
    /\ player1 = None
    /\ player2 = None
    /\ current_turn = 0
    /\ turn_number = 1
    /\ selected_hand_index = -1
    /\ selected_actor_index = -1
    /\ selected_target = NoTarget
    /\ battle_started = FALSE
    /\ announced_winner = 0
    /\ end_turns = 0
    /\ plays = 0
    /\ ignored_events = FALSE
    /\ built_deck = None
    /\ deck_code = <<>>
    /\ exported_deck = None
    /\ decode_result = None
    /\ import_result = None
    /\ rule_call = None

\* the lines instance s has been sent so far
LinesReceived(s) == Len(applied[s]) + Len(lobby[s].message_queue)

\* _recv_thread of instance r reads a line its peer sent and puts it on the
\* queue
ReceiveLine ==
    \E r \in Sides : \E line \in ForeignLines :
        /\ lobby[r].game_state # "EXIT"
        /\ lobby[r].recv_pc = "recv"
        /\ lobby[r].net_running
        /\ LinesReceived(Host) + LinesReceived(Client) < MaxForeignLines
        /\ lobby' = [lobby EXCEPT ![r].message_queue = Append(@, line)]
        /\ UNCHANGED <<wire, recv_buffer, sent, applied, short_reads, clicks,
                       battle_vars, codec_vars, rule_vars>>

NextMessages ==
    \/ ReceiveLine
    \/ ProcessMessages

SpecMessages == InitMessages /\ [][NextMessages]_vars

\* ---------------------------------- LAN lobby: the lines received, claims

\* the scenes handle_message can meet on instance s: the scene as it is, and
\* as it is after each line the queue holds before the line in question
RECURSIVE ScenesAlongQueue(_, _)
ScenesAlongQueue(sc, lines) ==
    IF lines = <<>> \/ handle_message_raises(Head(lines)) THEN {sc}
    ELSE {sc} \cup UNION {ScenesAlongQueue(handle_message(sc, Head(lines), shuffled).scene,
                                           Tail(lines)) :
                            shuffled \in DeckShuffles(sc)}

\* C34: handle_message on an EMOJI line and on a line that matches none of
\* the known prefixes returns, sends nothing and leaves the scene as it was:
\* my_turn, stage, local_player and remote_player among the rest
C34_UnknownAndEmojiLinesChangeNothing ==
    \A s \in Sides :
        \A sc \in ScenesAlongQueue(lobby[s], lobby[s].message_queue) :
            \A line \in UnknownLines \cup EmojiLines :
                /\ ~handle_message_raises(line)
                /\ handle_message(sc, line, <<>>) = Quiet(sc)

\* C34: in the battle, with both PlayerBattleStates at hand and the turn with
\* the peer, an instance has handled an EMOJI line after the STARTBATTLE line
C34_Witness ==
    \E s \in Sides :
        /\ applied[s] = <<StartBattleLine, EmojiLine>>
        /\ lobby[s].stage = 4
        /\ lobby[s].local_player # None
        /\ lobby[s].remote_player # None
        /\ ~lobby[s].my_turn
        /\ lobby[s].message_queue = <<>>

\* C40: whatever non-empty line the receive task puts on the queue, a PLAY
\* line with missing fields or with an actor slot that is no integer
\* included, handle_message returns and the loop of Game.run goes on: no
\* instance is ended by an error out of process_messages
C40_NoLineEndsTheLoop ==
    \A s \in Sides : lobby[s].game_state # "EXIT"

\* ------------------------------------------ damage transforms (main.py)

\* register_effect of main.py: the dict entry of card_id is set, a second
\* registration of the same id replacing the first
register_effect(effects, card_id, effect) ==
    [id \in DOMAIN effects \cup {card_id} |->
        IF id = card_id THEN effect ELSE effects[id]]

\* the two transforms main.py registers, lambda owner, opp, dmg: dmg * 2 and
\* dmg * 3, applied to a damage value
ApplyEffect(effect, dmg) == IF effect = "dmg * 2" THEN dmg * 2 ELSE dmg * 3

\* card_effects of main.py as the two register_effect calls leave it
card_effects ==
    register_effect(
        register_effect(<<>>, S(<<"W", "o", "r", "d", "l", "e">>), "dmg * 2"),
        S(<<"m", "a", "d", "p", "o", "s", "i", "o", "n">>), "dmg * 3")

\* final_dmg of main.py's battle: base times multiplier (no mage test), then
\* the transform registered for the card's id, if any
main_final_dmg(card, character) ==
    LET dmg == Max(1, card.cost) * (IF element_match(card, character) THEN 2 ELSE 1)
    IN  IF card.id \in DOMAIN card_effects
        THEN ApplyEffect(card_effects[card.id], dmg)
        ELSE dmg

\* C35: the damage of an accepted play of BattleScene.play_card is the
\* transform registered for the card's id applied to base times multiplier,
\* and base times multiplier itself for a card without registration; a
\* second registration of an id leaves one mapping, the later one
C35_RegisteredTransformApplied ==
    /\ DOMAIN register_effect(card_effects, S(<<"W", "o", "r", "d", "l", "e">>), "dmg * 3")
          = DOMAIN card_effects
    /\ register_effect(card_effects, S(<<"W", "o", "r", "d", "l", "e">>), "dmg * 3")
          [S(<<"W", "o", "r", "d", "l", "e">>)] = "dmg * 3"
    /\ (IF RuleCalled("play_card") THEN rule_call.returned ELSE FALSE) =>
          LET card == rule_call.before[1].hand[rule_call.hand_index + 1]
              actor == rule_call.before[1].chars[rule_call.actor_index + 1].character
              base_times_multiplier ==
                  Max(1, card.cost)
                      * (IF element_match(card, actor) /\ is_mage(actor) THEN 2 ELSE 1)
          IN  rule_call.logged =
                  IF card.id \in DOMAIN card_effects
                  THEN ApplyEffect(card_effects[card.id], base_times_multiplier)
                  ELSE base_times_multiplier

\* the same request handed to BattleScene.play_card: what the local battle
\* makes of the play the network battle has just executed
LocalPlayOfCall ==
    play_card(rule_call.before[1], rule_call.before[2], rule_call.hand_index,
              rule_call.actor_index, rule_call.target)

\* C38: a play that execute_play_card of the network battle has executed and
\* that play_card of the local battle accepts as well has the same final
\* damage in both, and leaves the player with the same energies, base mana,
\* hand and discard pile
C38_LocalAndNetworkPlayAgree ==
    (IF RuleCalled("execute_play_card") THEN LocalPlayOfCall.played ELSE FALSE) =>
        /\ rule_call.logged =
              final_dmg(rule_call.before[1].hand[rule_call.hand_index + 1],
                        rule_call.before[1].chars[rule_call.actor_index + 1].character)
        /\ player1 = LocalPlayOfCall.current_player

\* ------------------------------------------------ local battle: the piles

\* a card of a deck, as opposed to an ability card start_turn makes up
IsDeckCard(card) == ~StartsWith(card.id, S(<<"a", "b", "i", "l", "i", "t", "y", "_">>))

\* the deck cards of a pile or hand, in order
DeckCardsOf(cards) == SelectSeq(cards, IsDeckCard)

\* how often a card is in a list
CountIn(cards, card) == Cardinality({i \in 1..Len(cards) : cards[i] = card})

\* draw pile, hand and discard pile of p together hold the cards of deck d,
\* each as often as the deck does, and no other deck card
HoldsTheDeck(p, d) ==
    /\ \A i \in 1..Len(d.cards) :
          CountIn(p.deck, d.cards[i]) + CountIn(p.hand, d.cards[i])
            + CountIn(p.discard, d.cards[i]) = CountIn(d.cards, d.cards[i])
    /\ Len(DeckCardsOf(p.deck)) + Len(DeckCardsOf(p.hand)) + Len(DeckCardsOf(p.discard))
          = Len(d.cards)

\* the step is an accepted play: the played card goes from the mover's hand
\* to the mover's discard pile; the mover's draw pile and the opponent's
\* hand, draw pile, discard pile and base mana stay
PlayMovesTheCard(mover, mover_after, other, other_after) ==
    /\ mover_after.hand = PopAt(mover.hand, selected_hand_index)
    /\ mover_after.discard = Append(mover.discard, mover.hand[selected_hand_index + 1])
    /\ mover_after.deck = mover.deck
    /\ other_after.hand = other.hand
    /\ other_after.deck = other.deck
    /\ other_after.discard = other.discard
    /\ other_after.base_mana = other.base_mana

\* the step starts a turn of starter: of the deck cards, the top of the draw
\* pile goes to the end of the hand, if there is one, and nothing else moves
TurnStartDraws(starter, starter_after, other, other_after) ==
    /\ starter_after.deck = (IF starter.deck = <<>> THEN <<>> ELSE Tail(starter.deck))
    /\ DeckCardsOf(starter_after.hand) =
          DeckCardsOf(starter.hand)
              \o (IF starter.deck = <<>> THEN <<>> ELSE <<Head(starter.deck)>>)
    /\ starter_after.discard = starter.discard
    /\ other_after = other

MaxBattlePlays == 4

\* BattleScene.__init__ with _init_battle on the two playable decks
InitBases ==
    /\ Init
    /\ game_decks = <<DeckA, DeckB>>

\* handle_event, the clicks that select a hand card, an own character and a
\* target, followed by the click on the play button: play_card on that
\* selection with its win check. Only accepted plays are followed: a play
\* the scene rejects leaves the battle as it was, selection aside (see
\* ClickPlay)
SelectAndPlay ==
    /\ UNCHANGED <<codec_vars, net_vars, rule_vars>>
    /\ IF ~battle_started THEN IgnoreEvent
       ELSE \E i \in 0..(Len(current_player.hand) - 1),
               a \in 0..(Min(2, Len(current_player.chars)) - 1),
               t \in {"b"} \cup {TargetName(k) : k \in 0..(Min(2, Len(opponent_player.chars)) - 1)} :
            LET r == play_card(current_player, opponent_player, i, a, t)
                p1 == IF current_turn = 0 THEN r.current_player ELSE r.opponent
                p2 == IF current_turn = 0 THEN r.opponent ELSE r.current_player
            IN  /\ plays < MaxBattlePlays
                /\ r.played
                /\ player1' = p1
                /\ player2' = p2
                /\ selected_hand_index' = -1
                /\ selected_actor_index' = -1
                /\ selected_target' = NoTarget
                /\ battle_started' = still_started(p1, p2)
                /\ announced_winner' = winner(p1, p2)
                /\ plays' = plays + 1
                /\ UNCHANGED <<game_decks, current_turn, turn_number, end_turns, ignored_events>>

NextBases ==
    \/ SelectAndPlay
    \/ ClickEndTurn

SpecBases == InitBases /\ [][NextBases]_vars

\* check_winner with the two tests in the other order
check_winner_other_order(p1, p2) ==
    IF p2.base_hp <= 0 THEN 1 ELSE IF p1.base_hp <= 0 THEN 2 ELSE 0

\* C37: no step of a battle leaves both bases at 0 HP or below; an accepted
\* play leaves the mover's base as it was and never raises the opponent's, a
\* step that is no accepted play changes no base; so the win check names the
\* same side whichever base it tests first
C37_AtMostOneBaseDown ==
    [][\/ UNCHANGED <<player1, player2>>
       \/ /\ ~(player1'.base_hp <= 0 /\ player2'.base_hp <= 0)
          /\ IF plays' = plays + 1
             THEN IF current_turn = 0
                  THEN /\ player1'.base_hp = player1.base_hp
                       /\ player2'.base_hp <= player2.base_hp
                  ELSE /\ player2'.base_hp = player2.base_hp
                       /\ player1'.base_hp <= player1.base_hp
             ELSE /\ player1'.base_hp = player1.base_hp
                  /\ player2'.base_hp = player2.base_hp
          /\ winner(player1', player2') = check_winner_other_order(player1', player2')
          /\ announced_winner' = check_winner_other_order(player1', player2')]_vars

\* C37: the first player hit the second player's base, which stayed above 0,
\* and the second player's play then took the first player's base down: the
\* second player is the logged winner
C37_Witness ==
    /\ player1 # None
    /\ plays = 3
    /\ player1.base_hp <= 0
    /\ player2.base_hp > 0
    /\ player2.base_hp < 50
    /\ announced_winner = 2

\* ------------------------------------------------------- the battle start

\* the instance is in the battle stage with its battle started
InNetworkBattle(s) == lobby[s].stage = 4 /\ lobby[s].network_battle_started

\* C39: each instance sends STARTBATTLE at most once and never replaces the
\* battle state it has initialised, whichever instance starts and also when
\* both start before either has heard of the other; and an instance that the
\* exchange took to the battle stage has initialised its battle state and has
\* network_battle_started set
C39_StartBattleExchangeTerminates ==
    [][\A s \in Sides :
          /\ CountIn(sent'[s], StartBattleLine) <= 1
          /\ lobby[s].local_player # None =>
                lobby'[s].local_player = lobby[s].local_player
          /\ lobby'[s].stage = 4 =>
                /\ lobby'[s].network_battle_started
                /\ lobby'[s].local_player # None]_vars

====
